---- MODULE Spec2Model ----
(***************************************************************************)
(* Order workflow of the marketplace: useOrders.createOrder,               *)
(* useOrders.updateOrderStatus, useOrders.fetchOrders and                  *)
(* useCart.fetchCartItems, run against the relational store whose tables,  *)
(* constraints and row-level policies are declared in the schema           *)
(* migration.  Every awaited store call is one step; its outcome (success  *)
(* or error) is chosen by the store.  Amounts are integers (minor units).  *)
(***************************************************************************)
EXTENDS Integers, Sequences, FiniteSets, TLC

\* ---------------------------------------------------------------- bounds
MaxNow == 1            \* the clock runs over 0..MaxNow
TicksPerDay == 1       \* clock ticks that share one calendar day
RandomRange == 2       \* values FLOOR(RANDOM() * 10000) ranges over, here 0..RandomRange-1
MaxQty == 2            \* largest quantity of a cart row
MaxCalls == 2          \* createOrder calls, over all callers
MaxInflight == 2       \* updateOrderStatus calls in flight

\* ------------------------------------------------------- principals, data
Users == {"b1", "s1", "s2"}
Callers == {"b1", "s1"}                     \* sessions that call createOrder
Products == {"pA", "pB", "pC"}
Addresses == {"", "12 Marina Rd"}
Statuses == {"pending", "confirmed", "shipped", "delivered", "cancelled"}

\* user_profiles.role
RoleOf(u) == IF u = "b1" THEN "buyer" ELSE "seller"

\* products.seller_id
SellerOf(p) == IF p = "pB" THEN "s2" ELSE "s1"

\* products.price and products.stock_quantity of the catalogue at start
InitialProducts ==
  [p \in Products |->
     [seller_id |-> SellerOf(p),
      price |-> IF p = "pA" THEN 5 ELSE IF p = "pB" THEN 10 ELSE 3,
      stock_quantity |-> 1]]

VARIABLES
  now,          \* wall clock: NOW() of the store, Date.now() of the client
  products,     \* table products: [Products -> row]
  cart_items,   \* table cart_items: set of rows
  orders,       \* table orders: set of rows
  order_items,  \* table order_items: set of rows
  nextId,       \* next value of gen_random_uuid() for orders.id
  cartItems,    \* useCart state cartItems, per session
  ordersView,   \* useOrders state orders, per session
  dashOrders,   \* useOrders({role: 'seller'}) state orders of the dashboard
  co,           \* the createOrder call of each caller
  sc,           \* the updateOrderStatus calls in flight
  ledger,       \* history: which logical checkout each order came from
  cc,           \* the useCart calls in flight (addToCart, updateQuantity, removeFromCart)
  payment_receipts,  \* table payment_receipts: set of rows
  rc,           \* the uploadPaymentReceipt calls in flight
  auth,         \* AuthProvider state user and profile, per session
  authOps,      \* AuthProvider: session lookup, handlers, profile fetches in flight
  oh,           \* useOrders state of the session HookUser
  fo,           \* the fetchOrders calls of that hook in flight
  ch,           \* useCart state loading and error of that session
  fc,           \* the fetchCartItems calls of that hook in flight
  sh,           \* useStripe state loading and error of that session
  ss,           \* the createCheckoutSession calls in flight
  rejected      \* history: calls that threw before any store call

vars == <<now, products, cart_items, orders, order_items, nextId,
          cartItems, ordersView, dashOrders, co, sc, ledger,
          cc, payment_receipts, rc,
          auth, authOps, oh, fo, ch, fc, sh, ss, rejected>>

\* the state of the AuthProvider and of the hooks' flags
hookVars == <<auth, authOps, oh, fo, ch, fc, sh, ss, rejected>>

\* null
Null == ""

\* the guard "if (!user) throw" of a call made in session u
Thrown(u, op, message) ==
  rejected' = rejected \cup {[session |-> u, op |-> op, message |-> message]}

AuthenticatedAlways(u) == TRUE

\* user of the session is not null
Authenticated(u) == auth[u].user # Null

\* the context value of a session signed in as u with u's profile loaded
SignedIn(u) == [user |-> u, profile |-> u]
SignedOut == [user |-> Null, profile |-> Null]

\* useState initial values of useOrders, useCart and useStripe; deps is what
\* the hook's effect last ran with (<<>>, "not run": it has not run)
InitHooksFrom(a, ops) ==
  /\ auth = a
  /\ authOps = ops
  /\ oh = [orders |-> {}, stripeOrders |-> {}, loading |-> TRUE, error |-> Null,
           deps |-> <<>>]
  /\ fo = {}
  /\ ch = [loading |-> TRUE, error |-> Null, deps |-> "not run"]
  /\ fc = {}
  /\ sh = [loading |-> FALSE, error |-> Null, href |-> "app"]
  /\ ss = {}
  /\ rejected = {}

\* every session signed in with its profile loaded
InitHooks == InitHooksFrom([u \in Users |-> SignedIn(u)], {})

\* ------------------------------------------------------------- helpers
Max(a, b) == IF a >= b THEN a ELSE b

Range(s) == {s[i] : i \in 1..Len(s)}

\* all listings of a finite set as a sequence (a query without ORDER BY)
Listings(S) ==
  {f \in [1..Cardinality(S) -> S] : \A i, j \in 1..Cardinality(S) : f[i] = f[j] => i = j}

\* ---------------------------------------------------- order numbers
\* TO_CHAR(NOW(), 'YYYYMMDD')
DayOf(t) == t \div TicksPerDay

\* 'ORD-' || day || '-' || LPAD(r, 4, '0'): three dash-separated fields
generate_order_number(t, r) == <<"ORD", DayOf(t), r>>

\* `ORD-${Date.now()}`: two dash-separated fields
FallbackOrderNumber(t) == <<"ORD", t>>

\* variant: no fallback, the rpc's data is used as it is
OrderNumberOrNone(data, t) == data

\* orderNumberData || `ORD-${Date.now()}`; data is <<>> when the rpc gives none
OrderNumberOr(data, t) == IF data # <<>> THEN data ELSE FallbackOrderNumber(t)

\* ------------------------------------------------ createOrder, pure parts
\* variant: never finds the seller's group, so every item opens a group
GroupIndexNoMerge(acc, sid) == 0

\* index of the group of seller sid in acc, 0 when absent
GroupIndex(acc, sid) ==
  IF \E i \in 1..Len(acc) : acc[i].sellerId = sid
    THEN CHOOSE i \in 1..Len(acc) : acc[i].sellerId = sid
    ELSE 0

RECURSIVE GroupFrom(_, _)
GroupFrom(list, acc) ==
  IF list = <<>> THEN acc
  ELSE LET item == Head(list)
           sid == item.product.seller_id
           i == GroupIndex(acc, sid)
       IN GroupFrom(Tail(list),
            IF i = 0
              THEN Append(acc, [sellerId |-> sid, items |-> <<item>>])
              ELSE [acc EXCEPT ![i].items = Append(@, item)])

\* cartItems.reduce(...) then Object.entries: groups in first-occurrence order
OrdersBySeller(list) == GroupFrom(list, <<>>)

\* variant: the reduce adds the price of each item, not price * quantity
RECURSIVE TotalAmountUnit(_)
TotalAmountUnit(items) ==
  IF items = <<>> THEN 0
  ELSE Head(items).product.price + TotalAmountUnit(Tail(items))

RECURSIVE TotalAmount(_)
TotalAmount(items) ==
  IF items = <<>> THEN 0
  ELSE Head(items).product.price * Head(items).quantity + TotalAmount(Tail(items))

\* variant: total_price is the unit price, the quantity is left out
OrderItemRowsUnitTotal(orderId, items) ==
  {[order_id |-> orderId,
    product_id |-> items[i].product_id,
    quantity |-> items[i].quantity,
    unit_price |-> items[i].product.price,
    total_price |-> items[i].product.price] : i \in 1..Len(items)}

\* items.map(item => ({order_id, product_id, quantity, unit_price, total_price}))
OrderItemRows(orderId, items) ==
  {[order_id |-> orderId,
    product_id |-> items[i].product_id,
    quantity |-> items[i].quantity,
    unit_price |-> items[i].product.price,
    total_price |-> items[i].product.price * items[i].quantity] : i \in 1..Len(items)}

\* Math.max(0, item.product.stock_quantity - item.quantity)
NewStock(item) == Max(0, item.product.stock_quantity - item.quantity)

\* ------------------------------------------------ store constraints, RLS
\* variant: no UNIQUE constraint on order_number
OrderInsertAllowedNoUnique(caller, row) ==
  /\ row.total_amount > 0
  /\ row.buyer_id = caller

\* orders: order_number UNIQUE, total_amount > 0, shipping_address NOT NULL
\* (the empty string is not NULL); policy "Buyers can create orders"
OrderInsertAllowed(caller, row) ==
  /\ \A o \in orders : o.order_number # row.order_number
  /\ row.total_amount > 0
  /\ row.buyer_id = caller

\* order_items: quantity, unit_price, total_price > 0;
\* policy "Buyers can create order items"
ItemsInsertAllowed(caller, rows) ==
  /\ \A r \in rows : r.quantity > 0 /\ r.unit_price > 0 /\ r.total_price > 0
  /\ \A r \in rows : \E o \in orders : o.id = r.order_id /\ o.buyer_id = caller

\* policy "Sellers can manage own products": the rows an UPDATE can touch
ProductUpdateVisible(caller, p) == products[p].seller_id = caller

\* variant: the update policy admits every authenticated caller
OrderUpdateVisibleAny(caller, o) == TRUE

\* policy "Sellers can update own orders": the rows an UPDATE can touch
OrderUpdateVisible(caller, o) == o.seller_id = caller

\* policy "Users can read own orders"
OrderReadVisible(caller, o) == o.buyer_id = caller \/ o.seller_id = caller

\* policy "Buyers can manage own cart"
CartVisible(caller, r) == r.buyer_id = caller

\* ------------------------------------------------------------ queries
\* fetchOrders: role filter (options.role || profile.role) over the rows the
\* select policy shows
OrdersQuery(u, role) ==
  {o \in orders :
     /\ OrderReadVisible(u, o)
     /\ (role = "buyer" => o.buyer_id = u)
     /\ (role = "seller" => o.seller_id = u)}

\* fetchCartItems: the buyer's rows, each joined with its product
CartQuery(u) ==
  {[id |-> r.id, buyer_id |-> r.buyer_id, product_id |-> r.product_id,
    quantity |-> r.quantity, product |-> products[r.product_id]] :
     r \in {x \in cart_items : CartVisible(u, x) /\ x.buyer_id = u}}

\* --------------------------------------------------------------- state
IdleCall ==
  [pc |-> "idle", cartArg |-> <<>>, shippingAddress |-> "", groups |-> <<>>,
   gi |-> 0, si |-> 0,
   orderNumber |-> <<>>, order |-> <<>>, created |-> <<>>, issued |-> <<>>,
   calls |-> 0, checkout |-> 0]

\* cart_items rows at start, as quantities per caller and product (0: no row)
Qty(a, b, c) == [p \in Products |-> IF p = "pA" THEN a ELSE IF p = "pB" THEN b ELSE c]

InitCarts ==
  {[b \in Callers |-> IF b = "b1" THEN qb ELSE qs] :
     qb \in {Qty(0, 0, 0), Qty(MaxQty, 0, 0), Qty(MaxQty, 1, 0), Qty(1, 1, MaxQty)},
     qs \in {Qty(0, 0, 0), Qty(1, 0, 0)}}

CartRowId(b, p) ==
  (IF b = "b1" THEN 0 ELSE 3) + (IF p = "pA" THEN 1 ELSE IF p = "pB" THEN 2 ELSE 3)

CartRows(q) ==
  {[id |-> CartRowId(b, p), buyer_id |-> b, product_id |-> p, quantity |-> q[b][p]] :
     <<b, p>> \in {x \in Callers \X Products : q[x[1]][x[2]] > 0}}

InitApp ==
  /\ now = 0
  /\ products = InitialProducts
  /\ cartItems = [u \in Users |-> <<>>]
  /\ ordersView = [u \in Users |-> {}]
  /\ dashOrders = [u \in Users |-> {}]
  /\ co = [b \in Callers |-> IdleCall]
  /\ sc = {}
  /\ cc = {}
  /\ payment_receipts = {}
  /\ rc = {}

InitCommon == InitApp /\ InitHooks

Init ==
  /\ InitCommon
  /\ \E q \in InitCarts : cart_items = CartRows(q)
  /\ orders = {}
  /\ order_items = {}
  /\ nextId = 1
  /\ ledger = {}

\* createOrder calls made so far
TotalCalls == co["b1"].calls + co["s1"].calls

\* the call record once createOrder has returned: its locals are gone; what
\* stays is the outcome (resolved with createdOrders, or rejected)
Returned(c, outcome) ==
  [c EXCEPT !.pc = outcome, !.groups = <<>>, !.gi = 0, !.si = 0,
            !.orderNumber = <<>>, !.order = <<>>]

\* ------------------------------------------------------------- actions
\* the clock advances
Tick ==
  /\ now < MaxNow
  /\ now' = now + 1
  /\ UNCHANGED <<cc, payment_receipts, rc>>
  /\ UNCHANGED <<products, cart_items, orders, order_items, nextId, cartItems,
                 ordersView, dashOrders, co, sc, ledger>>
  /\ UNCHANGED hookVars

\* useCart.fetchCartItems: one select, then setCartItems(data) or setError
fetchCartItems(u) ==
  /\ \/ \E list \in Listings(CartQuery(u)) : cartItems' = [cartItems EXCEPT ![u] = list]
     \/ UNCHANGED cartItems
  /\ UNCHANGED <<cc, payment_receipts, rc>>
  /\ UNCHANGED <<now, products, cart_items, orders, order_items, nextId,
                 ordersView, dashOrders, co, sc, ledger>>
  /\ UNCHANGED hookVars

\* createOrder up to its first await: grouping, then the first rpc is issued
\* (or, with no group, the cart delete)
createOrder(b, addr) ==
  /\ co[b].pc \in {"idle", "done", "failed"}
  /\ IF Authenticated(b)
       THEN /\ LET groups == OrdersBySeller(cartItems[b])
               IN co' = [co EXCEPT ![b] =
                    [pc |-> IF groups = <<>> THEN "clear" ELSE "rpc",
                     cartArg |-> cartItems[b], shippingAddress |-> addr,
                     groups |-> groups, gi |-> 1, si |-> 1,
                     orderNumber |-> <<>>, order |-> <<>>, created |-> <<>>,
                     issued |-> <<>>,
                     calls |-> co[b].calls + 1,
                     checkout |-> IF co[b].pc = "failed" THEN co[b].checkout
                                                          ELSE co[b].checkout + 1]]
            /\ UNCHANGED rejected
       ELSE /\ Thrown(b, "createOrder", "User not authenticated")
            /\ UNCHANGED co
  /\ UNCHANGED <<cc, payment_receipts, rc>>
  /\ UNCHANGED <<now, products, cart_items, orders, order_items, nextId, cartItems,
                 ordersView, dashOrders, sc, ledger>>
  /\ UNCHANGED <<auth, authOps, oh, fo, ch, fc, sh, ss>>

\* supabase.rpc('generate_order_number') returns; the error is not looked at
RpcReturn(b) ==
  /\ co[b].pc = "rpc"
  /\ \E data \in {<<>>} \cup {generate_order_number(now, r) : r \in 0..(RandomRange - 1)} :
       co' = [co EXCEPT ![b].orderNumber = OrderNumberOr(data, now),
                        ![b].pc = "insertOrder",
                        ![b].issued = Append(@, "rpc")]
  /\ UNCHANGED <<cc, payment_receipts, rc>>
  /\ UNCHANGED <<now, products, cart_items, orders, order_items, nextId, cartItems,
                 ordersView, dashOrders, sc, ledger>>
  /\ UNCHANGED hookVars

\* the row of the orders insert of the current group
NewOrderRow(b) ==
  LET g == co[b].groups[co[b].gi]
  IN [id |-> nextId, order_number |-> co[b].orderNumber, buyer_id |-> b,
      seller_id |-> g.sellerId, total_amount |-> TotalAmount(g.items),
      status |-> "pending", shipping_address |-> co[b].shippingAddress,
      updated_at |-> now]

\* variant: the rejection path deletes the orders and items this call wrote
InsertOrderReturnRollback(b) ==
  /\ co[b].pc = "insertOrder"
  /\ LET row == NewOrderRow(b)
         mine == {co[b].created[i] : i \in 1..Len(co[b].created)}
     IN \/ /\ OrderInsertAllowed(b, row)
           /\ orders' = orders \cup {row}
           /\ nextId' = nextId + 1
           /\ ledger' = ledger \cup {[order_id |-> row.id, buyer_id |-> b,
                                      seller_id |-> row.seller_id,
                                      checkout |-> co[b].checkout]}
           /\ co' = [co EXCEPT ![b].order = <<row>>, ![b].pc = "insertItems",
                               ![b].issued = Append(@, "insert orders")]
           /\ UNCHANGED order_items
        \/ /\ co' = [co EXCEPT ![b] =
                       Returned([co[b] EXCEPT !.issued = Append(@, "insert orders")],
                                "failed")]
           /\ orders' = orders \ mine
           /\ order_items' = {it \in order_items : \A o \in mine : it.order_id # o.id}
           /\ UNCHANGED <<nextId, ledger>>
  /\ UNCHANGED <<cc, payment_receipts, rc>>
  /\ UNCHANGED <<now, products, cart_items, cartItems, ordersView, dashOrders, sc>>
  /\ UNCHANGED hookVars

\* from('orders').insert(...).select().single() returns; orderError throws
InsertOrderReturn(b) ==
  /\ co[b].pc = "insertOrder"
  /\ LET row == NewOrderRow(b)
     IN \/ /\ OrderInsertAllowed(b, row)
           /\ orders' = orders \cup {row}
           /\ nextId' = nextId + 1
           /\ ledger' = ledger \cup {[order_id |-> row.id, buyer_id |-> b,
                                      seller_id |-> row.seller_id,
                                      checkout |-> co[b].checkout]}
           /\ co' = [co EXCEPT ![b].order = <<row>>, ![b].pc = "insertItems",
                               ![b].issued = Append(@, "insert orders")]
        \/ /\ co' = [co EXCEPT ![b] =
                       Returned([co[b] EXCEPT !.issued = Append(@, "insert orders")],
                                "failed")]
           /\ UNCHANGED <<orders, nextId, ledger>>
  /\ UNCHANGED <<cc, payment_receipts, rc>>
  /\ UNCHANGED <<now, products, cart_items, order_items, cartItems,
                 ordersView, dashOrders, sc>>
  /\ UNCHANGED hookVars

\* from('order_items').insert(orderItems) returns; itemsError throws
InsertItemsReturn(b) ==
  /\ co[b].pc = "insertItems"
  /\ LET rows == OrderItemRows(co[b].order[1].id, co[b].groups[co[b].gi].items)
     IN \/ /\ ItemsInsertAllowed(b, rows)
           /\ order_items' = order_items \cup rows
           /\ co' = [co EXCEPT ![b].pc = "stock", ![b].si = 1,
                               ![b].issued = Append(@, "insert order_items")]
        \/ /\ co' = [co EXCEPT ![b] =
                       Returned([co[b] EXCEPT !.issued = Append(@, "insert order_items")],
                                "failed")]
           /\ UNCHANGED order_items
  /\ UNCHANGED <<cc, payment_receipts, rc>>
  /\ UNCHANGED <<now, products, cart_items, orders, nextId, cartItems,
                 ordersView, dashOrders, sc, ledger>>
  /\ UNCHANGED hookVars

\* one from('products').update({stock_quantity}) returns; its error is not
\* looked at.  After the last item: createdOrders.push(order), next group.
UpdateStockReturn(b) ==
  /\ co[b].pc = "stock"
  /\ LET g == co[b].groups[co[b].gi]
         item == g.items[co[b].si]
         p == item.product_id
     IN /\ \E ok \in BOOLEAN :
             products' = IF ok /\ ProductUpdateVisible(b, p)
                           THEN [products EXCEPT ![p].stock_quantity = NewStock(item)]
                           ELSE products
        /\ co' = IF co[b].si < Len(g.items)
                   THEN [co EXCEPT ![b].si = @ + 1,
                                   ![b].issued = Append(@, "update products")]
                   ELSE [co EXCEPT ![b].created = Append(@, co[b].order[1]),
                                   ![b].gi = @ + 1,
                                   ![b].pc = IF co[b].gi < Len(co[b].groups)
                                               THEN "rpc" ELSE "clear",
                                   ![b].issued = Append(@, "update products")]
  /\ UNCHANGED <<cc, payment_receipts, rc>>
  /\ UNCHANGED <<now, cart_items, orders, order_items, nextId, cartItems,
                 ordersView, dashOrders, sc, ledger>>
  /\ UNCHANGED hookVars

\* from('cart_items').delete().eq('buyer_id', user.id) returns; its error is
\* not looked at
ClearCartReturn(b) ==
  /\ co[b].pc = "clear"
  /\ \E ok \in BOOLEAN :
       cart_items' = IF ok
                       THEN {r \in cart_items : ~(CartVisible(b, r) /\ r.buyer_id = b)}
                       ELSE cart_items
  /\ co' = [co EXCEPT ![b].pc = "fetch", ![b].issued = Append(@, "delete cart_items")]
  /\ UNCHANGED <<cc, payment_receipts, rc>>
  /\ UNCHANGED <<now, products, orders, order_items, nextId, cartItems,
                 ordersView, dashOrders, sc, ledger>>
  /\ UNCHANGED hookVars

\* await fetchOrders() inside createOrder, then return createdOrders
CreateOrderFetchReturn(b) ==
  /\ co[b].pc = "fetch"
  /\ \/ ordersView' = [ordersView EXCEPT ![b] = OrdersQuery(b, RoleOf(b))]
     \/ UNCHANGED ordersView
  /\ co' = [co EXCEPT ![b] = Returned(co[b], "done")]
  /\ UNCHANGED <<cc, payment_receipts, rc>>
  /\ UNCHANGED <<now, products, cart_items, orders, order_items, nextId, cartItems,
                 dashOrders, sc, ledger>>
  /\ UNCHANGED hookVars

Next ==
  \/ Tick
  \/ \E u \in Callers : fetchCartItems(u)
  \/ \E b \in Callers, addr \in Addresses : TotalCalls = 0 /\ createOrder(b, addr)
  \/ \E b \in Callers : RpcReturn(b)
  \/ \E b \in Callers : InsertOrderReturn(b)
  \/ \E b \in Callers : InsertItemsReturn(b)
  \/ \E b \in Callers : UpdateStockReturn(b)
  \/ \E b \in Callers : ClearCartReturn(b)
  \/ \E b \in Callers : CreateOrderFetchReturn(b)

\* one checkout call, by either session, over every cart of InitCarts
Spec == Init /\ [][Next]_vars

\* repeated checkout calls (retries included) of the scenario carts
InitRetry ==
  /\ InitCommon
  /\ cart_items = CartRows([b \in Callers |->
                     IF b = "b1" THEN Qty(MaxQty, 1, 0) ELSE Qty(1, 0, 0)])
  /\ orders = {}
  /\ order_items = {}
  /\ nextId = 1
  /\ ledger = {}

NextRetry ==
  \/ Tick
  \/ \E u \in Callers : fetchCartItems(u)
  \/ TotalCalls < MaxCalls /\ createOrder("b1", "12 Marina Rd")
  \/ \E b \in Callers : RpcReturn(b)
  \/ \E b \in Callers : InsertOrderReturn(b)
  \/ \E b \in Callers : InsertItemsReturn(b)
  \/ \E b \in Callers : UpdateStockReturn(b)
  \/ \E b \in Callers : ClearCartReturn(b)
  \/ \E b \in Callers : CreateOrderFetchReturn(b)

SpecRetry == InitRetry /\ [][NextRetry]_vars

\* two sessions, each with its cart loaded, check out once and concurrently:
\* b1 buys pA and pB (two seller groups), s1 buys pA
PairCarts == [b \in Callers |-> IF b = "b1" THEN Qty(1, 1, 0) ELSE Qty(1, 0, 0)]

InitPair ==
  /\ now = 0
  /\ products = InitialProducts
  /\ cart_items = CartRows(PairCarts)
  /\ \E lb \in Listings(CartQuery("b1")), ls \in Listings(CartQuery("s1")) :
       cartItems = [u \in Users |-> IF u = "b1" THEN lb ELSE IF u = "s1" THEN ls ELSE <<>>]
  /\ ordersView = [u \in Users |-> {}]
  /\ dashOrders = [u \in Users |-> {}]
  /\ co = [b \in Callers |-> IdleCall]
  /\ sc = {}
  /\ cc = {}
  /\ payment_receipts = {}
  /\ rc = {}
  /\ InitHooks
  /\ orders = {}
  /\ order_items = {}
  /\ nextId = 1
  /\ ledger = {}

NextPair ==
  \/ Tick
  \/ \E b \in Callers : co[b].calls = 0 /\ createOrder(b, "12 Marina Rd")
  \/ \E b \in Callers : RpcReturn(b)
  \/ \E b \in Callers : InsertOrderReturn(b)
  \/ \E b \in Callers : InsertItemsReturn(b)
  \/ \E b \in Callers : UpdateStockReturn(b)
  \/ \E b \in Callers : ClearCartReturn(b)
  \/ \E b \in Callers : CreateOrderFetchReturn(b)

SpecPair == InitPair /\ [][NextPair]_vars

\* one checkout call, by either session with its cart loaded, in which every
\* store call returns
NextFallback ==
  \/ Tick
  \/ \E b \in Callers : TotalCalls = 0 /\ createOrder(b, "12 Marina Rd")
  \/ \E b \in Callers : RpcReturn(b)
  \/ \E b \in Callers : InsertOrderReturn(b)
  \/ \E b \in Callers : InsertItemsReturn(b)
  \/ \E b \in Callers : UpdateStockReturn(b)
  \/ \E b \in Callers : ClearCartReturn(b)
  \/ \E b \in Callers : CreateOrderFetchReturn(b)

EveryStoreCallReturns ==
  \A b \in Callers :
    /\ WF_vars(RpcReturn(b))
    /\ WF_vars(InsertOrderReturn(b))
    /\ WF_vars(InsertItemsReturn(b))
    /\ WF_vars(UpdateStockReturn(b))
    /\ WF_vars(ClearCartReturn(b))
    /\ WF_vars(CreateOrderFetchReturn(b))

SpecFallback == InitPair /\ [][NextFallback]_vars /\ EveryStoreCallReturns

\* ------------------------------------------------- product edits
\* values typed into the price and stock fields of the product form
EditPrices == {0, 7}
EditStocks == {0, MaxQty + 1}

\* products: CHECK (price > 0), CHECK (stock_quantity >= 0)
ProductRowAllowed(price, stock) == price > 0 /\ stock >= 0

\* SellerDashboard.handleProductSubmit on an existing product: one
\* from('products').update({...productForm, seller_id: user.id}).eq('id', p)
handleProductSubmit(s, p, price, stock) ==
  /\ RoleOf(s) = "seller"
  /\ \E ok \in BOOLEAN :
       products' = IF ok /\ ProductUpdateVisible(s, p) /\ ProductRowAllowed(price, stock)
                     THEN [products EXCEPT ![p] = [seller_id |-> s, price |-> price,
                                                   stock_quantity |-> stock]]
                     ELSE products
  /\ UNCHANGED <<cc, payment_receipts, rc>>
  /\ UNCHANGED <<now, cart_items, orders, order_items, nextId, cartItems,
                 ordersView, dashOrders, co, sc, ledger>>
  /\ UNCHANGED hookVars

\* carts of one seller group each: b1 holds pA x MaxQty, s1 holds its own pA x 1
EditCarts == [b \in Callers |-> IF b = "b1" THEN Qty(MaxQty, 0, 0) ELSE Qty(1, 0, 0)]

InitEdit ==
  /\ InitCommon
  /\ cart_items = CartRows(EditCarts)
  /\ orders = {}
  /\ order_items = {}
  /\ nextId = 1
  /\ ledger = {}

NextEdit ==
  \/ \E u \in Callers : fetchCartItems(u)
  \/ \E s \in Users, p \in Products, price \in EditPrices, stock \in EditStocks :
       handleProductSubmit(s, p, price, stock)
  \/ \E b \in Callers : TotalCalls = 0 /\ createOrder(b, "12 Marina Rd")
  \/ \E b \in Callers : RpcReturn(b)
  \/ \E b \in Callers : InsertOrderReturn(b)
  \/ \E b \in Callers : InsertItemsReturn(b)
  \/ \E b \in Callers : UpdateStockReturn(b)
  \/ \E b \in Callers : ClearCartReturn(b)
  \/ \E b \in Callers : CreateOrderFetchReturn(b)

\* sellers edit price and stock of their products while one session loads
\* its cart and checks out once
SpecEdit == InitEdit /\ [][NextEdit]_vars

\* ------------------------------------------------- cart mutations
CartProducts == {"pA", "pB"}       \* products offered to addToCart
QuantityInputs == (-1)..MaxQty     \* quantities passed to updateQuantity
MaxRowQty == MaxQty + 1            \* largest quantity a cart row is grown to

\* the rows .eq('buyer_id', user.id).eq('product_id', productId) selects
CartRowsOf(u, p) ==
  {r \in cart_items : CartVisible(u, r) /\ r.buyer_id = u /\ r.product_id = p}

\* quantity the store holds for (u, p); 0 with no row
StoreQty(u, p) ==
  IF CartRowsOf(u, p) = {} THEN 0
  ELSE (CHOOSE r \in CartRowsOf(u, p) : TRUE).quantity

\* cart_items.id DEFAULT gen_random_uuid(): an id no row, list or call holds
CartIdsInUse ==
  {r.id : r \in cart_items}
    \cup UNION {{it.id : it \in Range(cartItems[u])} : u \in Users}
    \cup {c.cartItemId : c \in cc}
    \cup UNION {{e.id : e \in Range(c.existingItem)} : c \in cc}

FreshCartId == CHOOSE m \in 1..(Cardinality(CartIdsInUse) + 1) :
                 /\ m \notin CartIdsInUse
                 /\ \A x \in 1..(m - 1) : x \in CartIdsInUse

\* cart_items: CHECK (quantity > 0), UNIQUE(buyer_id, product_id), and the
\* policy "Buyers can manage own cart"
CartInsertAllowed(caller, row) ==
  /\ row.buyer_id = caller
  /\ row.quantity > 0
  /\ ~\E r \in cart_items : r.buyer_id = row.buyer_id /\ r.product_id = row.product_id

CartUpdateAllowed(quantity) == quantity > 0

NoCartCall(u) == ~\E c \in cc : c.caller = u

CartCall(u, op, p, id, q, pc) ==
  [caller |-> u, op |-> op, productId |-> p, cartItemId |-> id, quantity |-> q,
   existingItem |-> <<>>, pc |-> pc]

\* variant: the update writes the added quantity alone
AddedQuantityOverwrite(existingItem, quantity) == quantity

\* existingItem.quantity + quantity
AddedQuantity(existingItem, quantity) == existingItem.quantity + quantity

\* useCart.addToCart up to its first await: the select of the existing row
addToCart(u, p, q) ==
  /\ IF Authenticated(u)
       THEN /\ cc' = cc \cup {CartCall(u, "addToCart", p, 0, q, "select")}
            /\ UNCHANGED rejected
       ELSE /\ Thrown(u, "addToCart", "User not authenticated")
            /\ UNCHANGED cc
  /\ UNCHANGED <<now, products, cart_items, orders, order_items, nextId, cartItems,
                 ordersView, dashOrders, co, sc, ledger, payment_receipts, rc>>
  /\ UNCHANGED <<auth, authOps, oh, fo, ch, fc, sh, ss>>

\* the select(...).single() returns: the row, or null (no row, several rows,
\* or an error, which is not looked at)
AddSelectReturn(c) ==
  /\ c \in cc /\ c.op = "addToCart" /\ c.pc = "select"
  /\ \E data \in {<<>>} \cup (IF Cardinality(CartRowsOf(c.caller, c.productId)) = 1
                               THEN {<<r>> : r \in CartRowsOf(c.caller, c.productId)}
                               ELSE {}) :
       cc' = (cc \ {c}) \cup
             {[c EXCEPT !.existingItem = data,
                        !.pc = IF data # <<>> THEN "update" ELSE "insert"]}
  /\ UNCHANGED <<now, products, cart_items, orders, order_items, nextId, cartItems,
                 ordersView, dashOrders, co, sc, ledger, payment_receipts, rc>>
  /\ UNCHANGED hookVars

\* update({quantity: existingItem.quantity + quantity}).eq('id', existingItem.id)
\* returns: on an error addToCart rejects
AddUpdateReturn(c) ==
  /\ c \in cc /\ c.op = "addToCart" /\ c.pc = "update"
  /\ LET e == c.existingItem[1]
         q == AddedQuantity(e, c.quantity)
     IN \E ok \in BOOLEAN :
          IF ok /\ CartUpdateAllowed(q)
            THEN /\ cart_items' = {IF r.id = e.id /\ CartVisible(c.caller, r)
                                     THEN [r EXCEPT !.quantity = q] ELSE r : r \in cart_items}
                 /\ cc' = (cc \ {c}) \cup {[c EXCEPT !.pc = "fetch"]}
            ELSE /\ cc' = cc \ {c}
                 /\ UNCHANGED cart_items
  /\ UNCHANGED <<now, products, orders, order_items, nextId, cartItems,
                 ordersView, dashOrders, co, sc, ledger, payment_receipts, rc>>
  /\ UNCHANGED hookVars

\* insert({buyer_id, product_id, quantity}) returns: on an error addToCart rejects
AddInsertReturn(c) ==
  /\ c \in cc /\ c.op = "addToCart" /\ c.pc = "insert"
  /\ LET row == [id |-> FreshCartId, buyer_id |-> c.caller,
                 product_id |-> c.productId, quantity |-> c.quantity]
     IN \E ok \in BOOLEAN :
          IF ok /\ CartInsertAllowed(c.caller, row)
            THEN /\ cart_items' = cart_items \cup {row}
                 /\ cc' = (cc \ {c}) \cup {[c EXCEPT !.pc = "fetch"]}
            ELSE /\ cc' = cc \ {c}
                 /\ UNCHANGED cart_items
  /\ UNCHANGED <<now, products, orders, order_items, nextId, cartItems,
                 ordersView, dashOrders, co, sc, ledger, payment_receipts, rc>>
  /\ UNCHANGED hookVars

\* variant: only a negative quantity removes the item
RemovesItemNegative(quantity) == quantity < 0

\* if (quantity <= 0) return removeFromCart(cartItemId)
RemovesItem(quantity) == quantity <= 0

\* useCart.removeFromCart up to its await: the delete is issued
removeFromCart(u, id) ==
  /\ cc' = cc \cup {CartCall(u, "removeFromCart", "", id, 0, "delete")}
  /\ UNCHANGED <<now, products, cart_items, orders, order_items, nextId, cartItems,
                 ordersView, dashOrders, co, sc, ledger, payment_receipts, rc>>
  /\ UNCHANGED hookVars

\* useCart.updateQuantity up to its await: the body of removeFromCart for a
\* quantity <= 0, else the update is issued
updateQuantity(u, id, q) ==
  /\ cc' = cc \cup {CartCall(u, "updateQuantity", "", id, q,
                             IF RemovesItem(q) THEN "delete" ELSE "update")}
  /\ UNCHANGED <<now, products, cart_items, orders, order_items, nextId, cartItems,
                 ordersView, dashOrders, co, sc, ledger, payment_receipts, rc>>
  /\ UNCHANGED hookVars

\* delete().eq('id', cartItemId) returns: on an error the call rejects
CartDeleteReturn(c) ==
  /\ c \in cc /\ c.pc = "delete"
  /\ \E ok \in BOOLEAN :
       IF ok
         THEN /\ cart_items' = {r \in cart_items :
                                  ~(r.id = c.cartItemId /\ CartVisible(c.caller, r))}
              /\ cc' = (cc \ {c}) \cup {[c EXCEPT !.pc = "fetch"]}
         ELSE /\ cc' = cc \ {c}
              /\ UNCHANGED cart_items
  /\ UNCHANGED <<now, products, orders, order_items, nextId, cartItems,
                 ordersView, dashOrders, co, sc, ledger, payment_receipts, rc>>
  /\ UNCHANGED hookVars

\* update({quantity}).eq('id', cartItemId) returns: on an error
\* updateQuantity rejects
QuantityUpdateReturn(c) ==
  /\ c \in cc /\ c.op = "updateQuantity" /\ c.pc = "update"
  /\ \E ok \in BOOLEAN :
       IF ok /\ CartUpdateAllowed(c.quantity)
         THEN /\ cart_items' = {IF r.id = c.cartItemId /\ CartVisible(c.caller, r)
                                  THEN [r EXCEPT !.quantity = c.quantity] ELSE r :
                                r \in cart_items}
              /\ cc' = (cc \ {c}) \cup {[c EXCEPT !.pc = "fetch"]}
         ELSE /\ cc' = cc \ {c}
              /\ UNCHANGED cart_items
  /\ UNCHANGED <<now, products, orders, order_items, nextId, cartItems,
                 ordersView, dashOrders, co, sc, ledger, payment_receipts, rc>>
  /\ UNCHANGED hookVars

\* await fetchCartItems() at the end of a cart call, then the call resolves
CartFetchReturn(c) ==
  /\ c \in cc /\ c.pc = "fetch"
  /\ \/ \E list \in Listings(CartQuery(c.caller)) :
          cartItems' = [cartItems EXCEPT ![c.caller] = list]
     \/ UNCHANGED cartItems
  /\ cc' = cc \ {c}
  /\ UNCHANGED <<now, products, cart_items, orders, order_items, nextId,
                 ordersView, dashOrders, co, sc, ledger, payment_receipts, rc>>
  /\ UNCHANGED hookVars

\* the session whose cart calls are followed; s1's cart row is in the store
CartCaller == "b1"
OtherCarts == [b \in Callers |-> IF b = "b1" THEN Qty(0, 0, 0) ELSE Qty(1, 0, 0)]

InitCart ==
  /\ InitCommon
  /\ cart_items = CartRows(OtherCarts)
  /\ orders = {}
  /\ order_items = {}
  /\ nextId = 1
  /\ ledger = {}

NextCart ==
  \/ \E p \in CartProducts, q \in 1..MaxQty :
       /\ NoCartCall(CartCaller)
       /\ StoreQty(CartCaller, p) + q <= MaxRowQty
       /\ addToCart(CartCaller, p, q)
  \/ \E q \in QuantityInputs, it \in Range(cartItems[CartCaller]) :
       NoCartCall(CartCaller) /\ updateQuantity(CartCaller, it.id, q)
  \/ \E it \in Range(cartItems[CartCaller]) :
       NoCartCall(CartCaller) /\ removeFromCart(CartCaller, it.id)
  \/ \E c \in cc : AddSelectReturn(c)
  \/ \E c \in cc : AddUpdateReturn(c)
  \/ \E c \in cc : AddInsertReturn(c)
  \/ \E c \in cc : CartDeleteReturn(c)
  \/ \E c \in cc : QuantityUpdateReturn(c)
  \/ \E c \in cc : CartFetchReturn(c)

\* one session issues its cart calls one after the other, next to another
\* buyer's cart row
SpecCart == InitCart /\ [][NextCart]_vars

\* ------------------------------------------------- order status
\* SellerDashboard OrdersTab: the buttons shown for an order of that status
Buttons ==
  {<<"pending", "confirmed">>, <<"pending", "cancelled">>,
   <<"confirmed", "shipped">>, <<"shipped", "delivered">>}

\* orders.status CHECK
StatusAllowed(s) == s \in Statuses

\* variant: the update has no .eq('id', orderId) filter
UpdatedOrdersNoId(caller, orderId, s) ==
  {IF OrderUpdateVisible(caller, o)
     THEN [o EXCEPT !.status = s, !.updated_at = now] ELSE o :
     o \in orders}

\* from('orders').update({ status }).eq('id', orderId) applied by the store;
\* the trigger update_orders_updated_at sets updated_at = NOW() on each row
\* the update touches
UpdatedOrders(caller, orderId, s) ==
  {IF o.id = orderId /\ OrderUpdateVisible(caller, o)
     THEN [o EXCEPT !.status = s, !.updated_at = now] ELSE o :
     o \in orders}

\* useOrders().updateOrderStatus(orderId, status), up to its await
updateOrderStatus(u, orderId, s) ==
  /\ Cardinality(sc) < MaxInflight
  /\ sc' = sc \cup {[caller |-> u, hook |-> "app", orderId |-> orderId,
                     status |-> s, pc |-> "update"]}
  /\ UNCHANGED <<cc, payment_receipts, rc>>
  /\ UNCHANGED <<now, products, cart_items, orders, order_items, nextId, cartItems,
                 ordersView, dashOrders, co, ledger>>
  /\ UNCHANGED hookVars

\* SellerDashboard.handleOrderStatusUpdate, reached from a button of the
\* order as the dashboard's orders list shows it
handleOrderStatusUpdate(u, orderId, s) ==
  /\ RoleOf(u) = "seller"
  /\ \E o \in dashOrders[u] : o.id = orderId /\ <<o.status, s>> \in Buttons
  /\ Cardinality(sc) < MaxInflight
  /\ sc' = sc \cup {[caller |-> u, hook |-> "dashboard", orderId |-> orderId,
                     status |-> s, pc |-> "update"]}
  /\ UNCHANGED <<cc, payment_receipts, rc>>
  /\ UNCHANGED <<now, products, cart_items, orders, order_items, nextId, cartItems,
                 ordersView, dashOrders, co, ledger>>
  /\ UNCHANGED hookVars

\* the update returns: an error rejects the call, otherwise fetchOrders is next
StatusUpdateReturn(c) ==
  /\ c \in sc
  /\ c.pc = "update"
  /\ \/ /\ StatusAllowed(c.status)
        /\ orders' = UpdatedOrders(c.caller, c.orderId, c.status)
        /\ sc' = (sc \ {c}) \cup {[c EXCEPT !.pc = "fetch"]}
     \/ /\ sc' = sc \ {c}
        /\ UNCHANGED orders
  /\ UNCHANGED <<cc, payment_receipts, rc>>
  /\ UNCHANGED <<now, products, cart_items, order_items, nextId, cartItems,
                 ordersView, dashOrders, co, ledger>>
  /\ UNCHANGED hookVars

\* fetchOrders of one hook: the select returns and setOrders runs, or the
\* select fails and the list stays
fetchOrders(u, hook) ==
  \/ /\ hook = "app"
     /\ ordersView' = [ordersView EXCEPT ![u] = OrdersQuery(u, RoleOf(u))]
     /\ UNCHANGED dashOrders
  \/ /\ hook = "dashboard"
     /\ dashOrders' = [dashOrders EXCEPT ![u] = OrdersQuery(u, "seller")]
     /\ UNCHANGED ordersView
  \/ UNCHANGED <<ordersView, dashOrders>>

\* await fetchOrders() inside updateOrderStatus, then the call resolves
StatusFetchReturn(c) ==
  /\ c \in sc
  /\ c.pc = "fetch"
  /\ fetchOrders(c.caller, c.hook)
  /\ sc' = sc \ {c}
  /\ UNCHANGED <<cc, payment_receipts, rc>>
  /\ UNCHANGED <<now, products, cart_items, orders, order_items, nextId, cartItems,
                 co, ledger>>
  /\ UNCHANGED hookVars

\* fetchOrders run by the hook's effect or by refetch()
Refetch(u, hook) ==
  /\ hook = "dashboard" => RoleOf(u) = "seller"
  /\ fetchOrders(u, hook)
  /\ UNCHANGED <<cc, payment_receipts, rc>>
  /\ UNCHANGED <<now, products, cart_items, orders, order_items, nextId, cartItems,
                 co, sc, ledger>>
  /\ UNCHANGED hookVars

\* the store after the checkout of the cart pA x MaxQty (seller s1) by b1
OneOrderStore ==
  /\ cart_items = {}
  /\ orders = {[id |-> 1, order_number |-> generate_order_number(0, 0), buyer_id |-> "b1",
                seller_id |-> "s1", total_amount |-> 5 * MaxQty, status |-> "pending",
                shipping_address |-> "12 Marina Rd", updated_at |-> 0]}
  /\ order_items = {[order_id |-> 1, product_id |-> "pA", quantity |-> MaxQty,
                     unit_price |-> 5, total_price |-> 5 * MaxQty]}
  /\ nextId = 2
  /\ ledger = {[order_id |-> 1, buyer_id |-> "b1", seller_id |-> "s1", checkout |-> 1]}

InitStatus == InitCommon /\ OneOrderStore

OrderIds == {o.id : o \in orders}

\* updateOrderStatus called directly on the hook, by any session
NextStatus ==
  \/ \E u \in Users, id \in OrderIds, s \in Statuses : updateOrderStatus(u, id, s)
  \/ \E c \in sc : StatusUpdateReturn(c)
  \/ \E c \in sc : StatusFetchReturn(c)

SpecStatus == InitStatus /\ [][NextStatus]_vars

\* updateOrderStatus reached from the buttons of the seller dashboard only
NextDashboard ==
  \/ \E u \in Users, id \in OrderIds, s \in Statuses : handleOrderStatusUpdate(u, id, s)
  \/ \E c \in sc : StatusUpdateReturn(c)
  \/ \E c \in sc : StatusFetchReturn(c)
  \/ \E u \in Users : Refetch(u, "dashboard")

SpecDashboard == InitStatus /\ [][NextDashboard]_vars

\* ------------------------------------------------- payment receipts
MaxReceipts == 2                   \* rows of payment_receipts
ReceiptUrls == {"receipt-1.png"}

\* payment_receipts: order_id REFERENCES orders(id), and the policy
\* "Buyers can upload receipts" WITH CHECK (uploaded_by = auth.uid())
ReceiptInsertAllowed(caller, row) ==
  /\ row.uploaded_by = caller
  /\ \E o \in orders : o.id = row.order_id

\* a number that tells the upload calls in flight apart
FreshUpload == CHOOSE n \in 1..(Cardinality(rc) + 1) : \A c \in rc : c.call # n

\* useOrders().uploadPaymentReceipt(orderId, receiptUrl), up to its await
uploadPaymentReceipt(u, orderId, receiptUrl) ==
  /\ Cardinality(payment_receipts) + Cardinality(rc) < MaxReceipts
  /\ IF Authenticated(u)
       THEN /\ rc' = rc \cup {[call |-> FreshUpload, caller |-> u, orderId |-> orderId,
                                receiptUrl |-> receiptUrl, pc |-> "insert"]}
            /\ UNCHANGED rejected
       ELSE /\ Thrown(u, "uploadPaymentReceipt", "User not authenticated")
            /\ UNCHANGED rc
  /\ UNCHANGED <<now, products, cart_items, orders, order_items, nextId, cartItems,
                 ordersView, dashOrders, co, sc, ledger, cc, payment_receipts>>
  /\ UNCHANGED <<auth, authOps, oh, fo, ch, fc, sh, ss>>

\* variant: the row is inserted as already verified
NewReceiptRowVerified(c) ==
  [id |-> Cardinality(payment_receipts) + 1, order_id |-> c.orderId,
   receipt_url |-> c.receiptUrl, uploaded_by |-> c.caller, status |-> "verified"]

\* insert({order_id, receipt_url, uploaded_by: user.id}); id and status take
\* their column defaults
NewReceiptRow(c) ==
  [id |-> Cardinality(payment_receipts) + 1, order_id |-> c.orderId,
   receipt_url |-> c.receiptUrl, uploaded_by |-> c.caller, status |-> "pending"]

\* the insert returns: an error rejects the call, otherwise fetchOrders is next
ReceiptInsertReturn(c) ==
  /\ c \in rc
  /\ c.pc = "insert"
  /\ LET row == NewReceiptRow(c)
     IN \E ok \in BOOLEAN :
          IF ok /\ ReceiptInsertAllowed(c.caller, row)
            THEN /\ payment_receipts' = payment_receipts \cup {row}
                 /\ rc' = (rc \ {c}) \cup {[c EXCEPT !.pc = "fetch"]}
            ELSE /\ rc' = rc \ {c}
                 /\ UNCHANGED payment_receipts
  /\ UNCHANGED <<now, products, cart_items, orders, order_items, nextId, cartItems,
                 ordersView, dashOrders, co, sc, ledger, cc>>
  /\ UNCHANGED hookVars

\* await fetchOrders() inside uploadPaymentReceipt, then the call resolves
ReceiptFetchReturn(c) ==
  /\ c \in rc
  /\ c.pc = "fetch"
  /\ fetchOrders(c.caller, "app")
  /\ rc' = rc \ {c}
  /\ UNCHANGED <<now, products, cart_items, orders, order_items, nextId, cartItems,
                 co, sc, ledger, cc, payment_receipts>>
  /\ UNCHANGED hookVars

\* the store after two checkouts of b1 at seller s1: pA x MaxQty, still
\* pending, and pC x 1, confirmed by the seller
InitFrame ==
  /\ InitCommon
  /\ cart_items = {}
  /\ orders = {[id |-> 1, order_number |-> generate_order_number(0, 0), buyer_id |-> "b1",
                seller_id |-> "s1", total_amount |-> 5 * MaxQty, status |-> "pending",
                shipping_address |-> "12 Marina Rd", updated_at |-> 0],
               [id |-> 2, order_number |-> generate_order_number(0, 1), buyer_id |-> "b1",
                seller_id |-> "s1", total_amount |-> 3, status |-> "confirmed",
                shipping_address |-> "12 Marina Rd", updated_at |-> 0]}
  /\ order_items = {[order_id |-> 1, product_id |-> "pA", quantity |-> MaxQty,
                     unit_price |-> 5, total_price |-> 5 * MaxQty],
                    [order_id |-> 2, product_id |-> "pC", quantity |-> 1,
                     unit_price |-> 3, total_price |-> 3]}
  /\ nextId = 3
  /\ ledger = {[order_id |-> 1, buyer_id |-> "b1", seller_id |-> "s1", checkout |-> 1],
               [order_id |-> 2, buyer_id |-> "b1", seller_id |-> "s1", checkout |-> 2]}

\* the order addressed in SpecFrame, and the statuses the seller sets
FrameOrder == 1
FrameStatuses == {"pending", "confirmed"}

NextFrame ==
  \/ Tick
  \/ \E s \in FrameStatuses : sc = {} /\ updateOrderStatus("s1", FrameOrder, s)
  \/ \E c \in sc : StatusUpdateReturn(c)
  \/ \E c \in sc : StatusFetchReturn(c)
  \/ \E url \in ReceiptUrls : uploadPaymentReceipt("b1", FrameOrder, url)
  \/ \E c \in rc : ReceiptInsertReturn(c)
  \/ \E c \in rc : ReceiptFetchReturn(c)
  \/ \E price \in EditPrices, stock \in EditStocks :
       handleProductSubmit("s1", "pA", price, stock)

\* after the checkouts: the seller sets statuses, one call after the other,
\* the buyer uploads receipts, the seller edits the product, the clock runs
SpecFrame == InitFrame /\ [][NextFrame]_vars

\* ===================================================== useOrders, call by call
\* the session whose hooks are followed await by await
HookUser == "s1"

MaxFetches == 1        \* refetch() calls in flight

\* the rows of the view stripe_user_orders, by customer
stripe_user_orders == {[customer |-> "s1", order_id |-> 101],
                       [customer |-> "b1", order_id |-> 102]}

\* a number no fetchOrders call in flight has
FreshFetch == CHOOSE n \in 1..(Cardinality(fo) + 1) : \A f \in fo : f.call # n

\* fetchOrders up to its first await, in a closure that holds the context
\* value a, for the awaiting call w (<<>>: none): without user or profile the
\* lists are cleared and the call is over, otherwise the select is issued
\* with the identity uid of the client
FetchStarted(a, w) ==
  IF a.user = Null \/ a.profile = Null
    THEN /\ oh' = [oh EXCEPT !.orders = {}, !.stripeOrders = {}, !.loading = FALSE,
                             !.deps = IF w = <<>> THEN auth[HookUser] ELSE @]
         /\ UNCHANGED fo
    ELSE /\ oh' = [oh EXCEPT !.loading = TRUE, !.error = Null,
                             !.deps = IF w = <<>> THEN auth[HookUser] ELSE @]
         /\ fo' = fo \cup {[call |-> FreshFetch, user |-> a.user,
                            role |-> RoleOf(a.profile), uid |-> auth[HookUser].user,
                            pc |-> "select", data |-> {}, failed |-> FALSE,
                            awaiter |-> w]}

\* the hook's effect: fetchOrders when user or profile has changed
OrdersEffect ==
  /\ oh.deps # auth[HookUser]
  /\ FetchStarted(auth[HookUser], <<>>)
  /\ UNCHANGED <<now, products, cart_items, orders, order_items, nextId, cartItems,
                 ordersView, dashOrders, co, sc, ledger, cc, payment_receipts, rc>>
  /\ UNCHANGED <<auth, authOps, ch, fc, sh, ss, rejected>>

\* refetch(), from the render that shows the current context value
refetch ==
  /\ oh.deps = auth[HookUser]
  /\ Cardinality({f \in fo : f.awaiter = <<>>}) < MaxFetches
  /\ FetchStarted(auth[HookUser], <<>>)
  /\ UNCHANGED <<now, products, cart_items, orders, order_items, nextId, cartItems,
                 ordersView, dashOrders, co, sc, ledger, cc, payment_receipts, rc>>
  /\ UNCHANGED <<auth, authOps, ch, fc, sh, ss, rejected>>

\* the store serves the select of a fetchOrders call, or fails it
OrdersSelectServed(f) ==
  /\ f \in fo
  /\ f.pc = "select"
  /\ \/ fo' = (fo \ {f}) \cup
                {[f EXCEPT !.pc = "served",
                           !.data = {o \in OrdersQuery(f.user, f.role) :
                                       OrderReadVisible(f.uid, o)}]}
     \/ fo' = (fo \ {f}) \cup {[f EXCEPT !.pc = "served", !.failed = TRUE]}
  /\ UNCHANGED <<now, products, cart_items, orders, order_items, nextId, cartItems,
                 ordersView, dashOrders, co, sc, ledger, cc, payment_receipts, rc>>
  /\ UNCHANGED <<auth, authOps, oh, ch, fc, sh, ss, rejected>>

\* the call awaiting a fetchOrders call resolves when that call is over
AwaiterResolved(f) ==
  IF f.awaiter = <<>>
    THEN UNCHANGED sc
    ELSE sc' = (sc \ {f.awaiter[1]}) \cup {[f.awaiter[1] EXCEPT !.pc = "resolved"]}

\* the select of fetchOrders returns: setOrders and the side read, or catch
\* (setError) and finally (setLoading(false))
OrdersSelectReturn(f) ==
  /\ f \in fo
  /\ f.pc = "served"
  /\ IF f.failed
       THEN /\ oh' = [oh EXCEPT !.error = "Failed to fetch orders", !.loading = FALSE]
            /\ fo' = fo \ {f}
            /\ AwaiterResolved(f)
       ELSE /\ oh' = [oh EXCEPT !.orders = f.data]
            /\ fo' = (fo \ {f}) \cup {[f EXCEPT !.pc = "stripe"]}
            /\ UNCHANGED sc
  /\ UNCHANGED <<now, products, cart_items, orders, order_items, nextId, cartItems,
                 ordersView, dashOrders, co, ledger, cc, payment_receipts, rc>>
  /\ UNCHANGED <<auth, authOps, ch, fc, sh, ss, rejected>>

AfterStripeErrorShown(f) == [oh EXCEPT !.error = "Failed to fetch orders", !.loading = FALSE]

\* the hook's state after the side read of stripe_user_orders failed: the
\* error is logged only, then finally
AfterStripeError(f) == [oh EXCEPT !.loading = FALSE]

\* the side read of stripe_user_orders returns, then finally
StripeSelectReturn(f) ==
  /\ f \in fo
  /\ f.pc = "stripe"
  /\ \/ oh' = [oh EXCEPT !.stripeOrders = {r \in stripe_user_orders : r.customer = f.uid},
                         !.loading = FALSE]
     \/ oh' = AfterStripeError(f)
  /\ fo' = fo \ {f}
  /\ AwaiterResolved(f)
  /\ UNCHANGED <<now, products, cart_items, orders, order_items, nextId, cartItems,
                 ordersView, dashOrders, co, ledger, cc, payment_receipts, rc>>
  /\ UNCHANGED <<auth, authOps, ch, fc, sh, ss, rejected>>

\* useOrders().updateOrderStatus(orderId, status) of the session HookUser, up
\* to its await; the call keeps the closure's context value
StatusInputs == {"confirmed", "cancelled"}

hookUpdateOrderStatus(orderId, s) ==
  /\ sc = {}
  /\ auth[HookUser].user # Null
  /\ sc' = {[caller |-> HookUser, hook |-> "app", orderId |-> orderId, status |-> s,
             pc |-> "update", closure |-> auth[HookUser]]}
  /\ UNCHANGED <<now, products, cart_items, orders, order_items, nextId, cartItems,
                 ordersView, dashOrders, co, ledger, cc, payment_receipts, rc>>
  /\ UNCHANGED hookVars

\* its update returns: an error rejects the call, otherwise await fetchOrders()
HookStatusUpdateReturn(c) ==
  /\ c \in sc
  /\ c.pc = "update"
  /\ \/ /\ StatusAllowed(c.status)
        /\ orders' = UpdatedOrders(auth[HookUser].user, c.orderId, c.status)
        /\ FetchStarted(c.closure, <<[c EXCEPT !.pc = "fetch"]>>)
        /\ sc' = IF c.closure.user = Null \/ c.closure.profile = Null
                   THEN {[c EXCEPT !.pc = "resolved"]}
                   ELSE {[c EXCEPT !.pc = "fetch"]}
     \/ /\ sc' = {[c EXCEPT !.pc = "rejected"]}
        /\ UNCHANGED <<orders, oh, fo>>
  /\ UNCHANGED <<now, products, cart_items, order_items, nextId, cartItems,
                 ordersView, dashOrders, co, ledger, cc, payment_receipts, rc>>
  /\ UNCHANGED <<auth, authOps, ch, fc, sh, ss, rejected>>

\* ===================================================== AuthProvider
\* a number no AuthProvider operation in flight has
FreshAuthOp == CHOOSE n \in 1..(Cardinality(authOps) + 1) : \A a \in authOps : a.call # n

\* handleSignOut up to its await
handleSignOut(u) ==
  /\ auth[u].user # Null
  /\ \A a \in authOps : ~(a.session = u /\ a.kind = "signOut")
  /\ authOps' = authOps \cup {[call |-> FreshAuthOp, session |-> u, kind |-> "signOut",
                               userId |-> Null]}
  /\ UNCHANGED <<now, products, cart_items, orders, order_items, nextId, cartItems,
                 ordersView, dashOrders, co, sc, ledger, cc, payment_receipts, rc>>
  /\ UNCHANGED <<auth, oh, fo, ch, fc, sh, ss, rejected>>

\* supabase.auth.signOut() returns: setUser(null), setProfile(null)
SignOutReturn(a) ==
  /\ a \in authOps
  /\ a.kind = "signOut"
  /\ auth' = [auth EXCEPT ![a.session] = SignedOut]
  /\ authOps' = authOps \ {a}
  /\ UNCHANGED <<now, products, cart_items, orders, order_items, nextId, cartItems,
                 ordersView, dashOrders, co, sc, ledger, cc, payment_receipts, rc>>
  /\ UNCHANGED <<oh, fo, ch, fc, sh, ss, rejected>>

MaxAuthOps == 2        \* AuthProvider operations in flight

\* getUserProfile(userId): the user_profiles row of userId, or null when the
\* select returns an error
getUserProfile(userId, ok) == IF ok THEN userId ELSE Null

\* supabase.auth.getSession() returns the stored session of account id, or
\* none: setUser, and the profile fetch of the initial session is issued
GetSessionReturn(a, id) ==
  /\ a \in authOps
  /\ a.kind = "getSession"
  /\ auth' = [auth EXCEPT ![a.session].user = id]
  /\ authOps' = (authOps \ {a}) \cup
                  (IF id = Null THEN {}
                   ELSE {[a EXCEPT !.kind = "initialProfile", !.userId = id]})
  /\ UNCHANGED <<now, products, cart_items, orders, order_items, nextId, cartItems,
                 ordersView, dashOrders, co, sc, ledger, cc, payment_receipts, rc>>
  /\ UNCHANGED <<oh, fo, ch, fc, sh, ss, rejected>>

\* the onAuthStateChange handler, up to its await, for the session of
\* account id or for no session
AuthStateChange(u, id) ==
  /\ Cardinality(authOps) < MaxAuthOps
  /\ auth' = [auth EXCEPT ![u].user = id,
                          ![u].profile = IF id = Null THEN Null ELSE @]
  /\ authOps' = authOps \cup
                  (IF id = Null THEN {}
                   ELSE {[call |-> FreshAuthOp, session |-> u, kind |-> "handlerProfile",
                          userId |-> id]})
  /\ UNCHANGED <<now, products, cart_items, orders, order_items, nextId, cartItems,
                 ordersView, dashOrders, co, sc, ledger, cc, payment_receipts, rc>>
  /\ UNCHANGED <<oh, fo, ch, fc, sh, ss, rejected>>

\* refreshProfile up to its await
refreshProfile(u) ==
  /\ Cardinality(authOps) < MaxAuthOps
  /\ auth[u].user # Null
  /\ authOps' = authOps \cup {[call |-> FreshAuthOp, session |-> u,
                               kind |-> "refreshProfile", userId |-> auth[u].user]}
  /\ UNCHANGED <<now, products, cart_items, orders, order_items, nextId, cartItems,
                 ordersView, dashOrders, co, sc, ledger, cc, payment_receipts, rc>>
  /\ UNCHANGED <<auth, oh, fo, ch, fc, sh, ss, rejected>>

\* setProfile with what a getUserProfile call returned
ProfileSet(a, ok) == [auth EXCEPT ![a.session].profile = getUserProfile(a.userId, ok)]

\* a getUserProfile call of the initial session, of a handler or of
\* refreshProfile returns
ProfileFetchReturn(a) ==
  /\ a \in authOps
  /\ a.kind \in {"initialProfile", "handlerProfile", "refreshProfile"}
  /\ \E ok \in BOOLEAN : auth' = ProfileSet(a, ok)
  /\ authOps' = authOps \ {a}
  /\ UNCHANGED <<now, products, cart_items, orders, order_items, nextId, cartItems,
                 ordersView, dashOrders, co, sc, ledger, cc, payment_receipts, rc>>
  /\ UNCHANGED <<oh, fo, ch, fc, sh, ss, rejected>>

\* the orders list of one session, with sign-out
NextHook ==
  \/ Tick
  \/ OrdersEffect
  \/ refetch
  \/ \E f \in fo : OrdersSelectServed(f)
  \/ \E f \in fo : OrdersSelectReturn(f)
  \/ \E f \in fo : StripeSelectReturn(f)
  \/ \E s \in StatusInputs : hookUpdateOrderStatus(1, s)
  \/ \E c \in sc : HookStatusUpdateReturn(c)
  \/ handleSignOut(HookUser)
  \/ \E a \in authOps : SignOutReturn(a)

SpecHook == InitStatus /\ [][NextHook]_vars

\* ===================================================== useCart and useStripe flags
\* a number no fetchCartItems call in flight has
FreshCartFetch == CHOOSE n \in 1..(Cardinality(fc) + 1) : \A f \in fc : f.call # n

\* fetchCartItems up to its first await, in a closure that holds user: without
\* user the list is cleared and the call is over
CartFetchStarted(user) ==
  IF user = Null
    THEN /\ cartItems' = [cartItems EXCEPT ![HookUser] = <<>>]
         /\ ch' = [ch EXCEPT !.loading = FALSE, !.deps = auth[HookUser].user]
         /\ UNCHANGED fc
    ELSE /\ ch' = [ch EXCEPT !.loading = TRUE, !.error = Null,
                             !.deps = auth[HookUser].user]
         /\ fc' = fc \cup {[call |-> FreshCartFetch, user |-> user, pc |-> "select",
                            data |-> <<>>, failed |-> FALSE]}
         /\ UNCHANGED cartItems

\* the effect of useCart: fetchCartItems when user has changed
CartEffect ==
  /\ ch.deps # auth[HookUser].user
  /\ CartFetchStarted(auth[HookUser].user)
  /\ UNCHANGED <<now, products, cart_items, orders, order_items, nextId,
                 ordersView, dashOrders, co, sc, ledger, cc, payment_receipts, rc>>
  /\ UNCHANGED <<auth, authOps, oh, fo, sh, ss, rejected>>

\* useCart().refetch()
cartRefetch ==
  /\ ch.deps = auth[HookUser].user
  /\ Cardinality(fc) < MaxFetches
  /\ CartFetchStarted(auth[HookUser].user)
  /\ UNCHANGED <<now, products, cart_items, orders, order_items, nextId,
                 ordersView, dashOrders, co, sc, ledger, cc, payment_receipts, rc>>
  /\ UNCHANGED <<auth, authOps, oh, fo, sh, ss, rejected>>

\* the store serves the select of a fetchCartItems call, or fails it
CartSelectServed(f) ==
  /\ f \in fc
  /\ f.pc = "select"
  /\ \/ \E list \in Listings(CartQuery(f.user)) :
          fc' = (fc \ {f}) \cup {[f EXCEPT !.pc = "served", !.data = list]}
     \/ fc' = (fc \ {f}) \cup {[f EXCEPT !.pc = "served", !.failed = TRUE]}
  /\ UNCHANGED <<now, products, cart_items, orders, order_items, nextId, cartItems,
                 ordersView, dashOrders, co, sc, ledger, cc, payment_receipts, rc>>
  /\ UNCHANGED <<auth, authOps, oh, fo, ch, sh, ss, rejected>>

\* the select of fetchCartItems returns: setCartItems, or catch (setError),
\* then finally (setLoading(false))
CartSelectReturn(f) ==
  /\ f \in fc
  /\ f.pc = "served"
  /\ IF f.failed
       THEN /\ ch' = [ch EXCEPT !.error = "Failed to fetch cart items", !.loading = FALSE]
            /\ UNCHANGED cartItems
       ELSE /\ ch' = [ch EXCEPT !.loading = FALSE]
            /\ cartItems' = [cartItems EXCEPT ![HookUser] = f.data]
  /\ fc' = fc \ {f}
  /\ UNCHANGED <<now, products, cart_items, orders, order_items, nextId,
                 ordersView, dashOrders, co, sc, ledger, cc, payment_receipts, rc>>
  /\ UNCHANGED <<auth, authOps, oh, fo, sh, ss, rejected>>

\* a number no createCheckoutSession call in flight has
FreshCheckout == CHOOSE n \in 1..(Cardinality(ss) + 1) : \A c \in ss : c.call # n

\* what the checkout function answers: a session URL, a body without one, or
\* an error body
CheckoutAnswers == {"url", "no-url", "error"}

\* createCheckoutSession up to its await: it throws without a user, before
\* any state is set
createCheckoutSession ==
  /\ Cardinality(ss) < MaxFetches
  /\ IF auth[HookUser].user = Null
       THEN /\ Thrown(HookUser, "createCheckoutSession", "User must be authenticated")
            /\ UNCHANGED <<sh, ss>>
       ELSE /\ sh' = [sh EXCEPT !.loading = TRUE, !.error = Null]
            /\ ss' = ss \cup {[call |-> FreshCheckout, pc |-> "post"]}
            /\ UNCHANGED rejected
  /\ UNCHANGED <<now, products, cart_items, orders, order_items, nextId, cartItems,
                 ordersView, dashOrders, co, sc, ledger, cc, payment_receipts, rc>>
  /\ UNCHANGED <<auth, authOps, oh, fo, ch, fc>>

\* the state of useStripe after catch and finally
CheckoutFailedLoading(msg) == [sh EXCEPT !.error = msg]

CheckoutFailed(msg) == [sh EXCEPT !.error = msg, !.loading = FALSE]

\* fetch() returns a response, whose body is read next, or rejects
CheckoutResponse(c) ==
  /\ c \in ss
  /\ c.pc = "post"
  /\ \/ \E a \in CheckoutAnswers :
          /\ ss' = (ss \ {c}) \cup {[c EXCEPT !.pc = a]}
          /\ UNCHANGED sh
     \/ /\ sh' = CheckoutFailed("Failed to fetch")
        /\ ss' = ss \ {c}
  /\ UNCHANGED <<now, products, cart_items, orders, order_items, nextId, cartItems,
                 ordersView, dashOrders, co, sc, ledger, cc, payment_receipts, rc>>
  /\ UNCHANGED <<auth, authOps, oh, fo, ch, fc, rejected>>

\* response.json() returns: the redirect, or a throw, catch and finally
CheckoutBodyReturn(c) ==
  /\ c \in ss
  /\ c.pc \in CheckoutAnswers
  /\ sh' = CASE c.pc = "url" -> [sh EXCEPT !.loading = FALSE, !.href = "checkout"]
             [] c.pc = "no-url" -> CheckoutFailed("No checkout URL received")
             [] c.pc = "error" -> CheckoutFailed("Failed to create checkout session")
  /\ ss' = ss \ {c}
  /\ UNCHANGED <<now, products, cart_items, orders, order_items, nextId, cartItems,
                 ordersView, dashOrders, co, sc, ledger, cc, payment_receipts, rc>>
  /\ UNCHANGED <<auth, authOps, oh, fo, ch, fc, rejected>>

\* the three hooks of one session, with sign-out
NextLoading ==
  \/ OrdersEffect
  \/ \E f \in fo : OrdersSelectServed(f)
  \/ \E f \in fo : OrdersSelectReturn(f)
  \/ \E f \in fo : StripeSelectReturn(f)
  \/ CartEffect
  \/ cartRefetch
  \/ \E f \in fc : CartSelectServed(f)
  \/ \E f \in fc : CartSelectReturn(f)
  \/ createCheckoutSession
  \/ \E c \in ss : CheckoutResponse(c)
  \/ \E c \in ss : CheckoutBodyReturn(c)
  \/ handleSignOut(HookUser)
  \/ \E a \in authOps : SignOutReturn(a)

SpecLoading == InitStatus /\ [][NextLoading]_vars

\* ===================================================== calls without a user
\* the session that starts signed out
GuestSession == "b1"

\* the AuthProvider of GuestSession has found no session; order 1 is in
\* the store
InitGuest ==
  /\ InitApp
  /\ InitHooksFrom([u \in Users |-> IF u = GuestSession THEN SignedOut ELSE SignedIn(u)],
                   {})
  /\ OneOrderStore

\* no call of the session is in flight
GuestIdle ==
  /\ co[GuestSession].pc \in {"idle", "done", "failed"}
  /\ cc = {}
  /\ rc = {}

\* the session calls createOrder, addToCart and uploadPaymentReceipt, one
\* call after the other, before and after it signs in
NextGuest ==
  \/ AuthStateChange(GuestSession, GuestSession)
  \/ \E a \in authOps : ProfileFetchReturn(a)
  \/ GuestIdle /\ Authenticated(GuestSession) /\ fetchCartItems(GuestSession)
  \/ GuestIdle /\ TotalCalls = 0 /\ createOrder(GuestSession, "12 Marina Rd")
  \/ RpcReturn(GuestSession)
  \/ InsertOrderReturn(GuestSession)
  \/ InsertItemsReturn(GuestSession)
  \/ UpdateStockReturn(GuestSession)
  \/ ClearCartReturn(GuestSession)
  \/ CreateOrderFetchReturn(GuestSession)
  \/ GuestIdle /\ StoreQty(GuestSession, "pA") = 0 /\ addToCart(GuestSession, "pA", 1)
  \/ \E c \in cc : AddSelectReturn(c)
  \/ \E c \in cc : AddInsertReturn(c)
  \/ \E c \in cc : CartFetchReturn(c)
  \/ \E url \in ReceiptUrls : GuestIdle /\ uploadPaymentReceipt(GuestSession, 1, url)
  \/ \E c \in rc : ReceiptInsertReturn(c)
  \/ \E c \in rc : ReceiptFetchReturn(c)

SpecGuest == InitGuest /\ [][NextGuest]_vars

\* ===================================================== checkout next to cart calls
\* the product the buyer adds, which the loaded cart does not hold
TabProduct == "pC"

\* b1 checks its loaded cart out once and adds the product to its cart, one
\* addToCart call after the other, at any time
NextTabs ==
  \/ co["b1"].calls = 0 /\ createOrder("b1", "12 Marina Rd")
  \/ RpcReturn("b1")
  \/ InsertOrderReturn("b1")
  \/ InsertItemsReturn("b1")
  \/ UpdateStockReturn("b1")
  \/ ClearCartReturn("b1")
  \/ CreateOrderFetchReturn("b1")
  \/ \E q \in 1..MaxQty :
       /\ NoCartCall("b1")
       /\ StoreQty("b1", TabProduct) = 0
       /\ addToCart("b1", TabProduct, q)
  \/ \E c \in cc : AddSelectReturn(c)
  \/ \E c \in cc : AddInsertReturn(c)
  \/ \E c \in cc : CartFetchReturn(c)

SpecTabs == InitPair /\ [][NextTabs]_vars

\* ===================================================== two addToCart calls
\* the products the calls add, the quantity b1's cart holds of each before
\* them (0: no row), and the quantities the two calls add
RaceProducts == {"pA", "pC"}
RacePrior(p) == IF p = "pA" THEN 1 ELSE 0
RaceQuantities == {1, 2}

\* b1 calls addToCart(p, 1) and addToCart(p', 2) while its cart still holds
\* the prior quantity of the product; the calls run in any interleaving
NextRace ==
  \/ \E p \in RaceProducts, q \in RaceQuantities :
       /\ \A c \in cc : c.quantity # q
       /\ StoreQty("b1", p) = RacePrior(p)
       /\ addToCart("b1", p, q)
  \/ \E c \in cc : AddSelectReturn(c)
  \/ \E c \in cc : AddUpdateReturn(c)
  \/ \E c \in cc : AddInsertReturn(c)
  \/ \E c \in cc : CartFetchReturn(c)

SpecRace == InitPair /\ [][NextRace]_vars

\* ===================================================== AuthProvider, alone
\* the accounts that sign in in the session HookUser
Accounts == {"s1", "s2"}

\* the provider is mounted: user and profile are null and the session lookup
\* is in flight
InitAuth ==
  /\ InitApp
  /\ InitHooksFrom([u \in Users |-> IF u = HookUser THEN SignedOut ELSE SignedIn(u)],
                   {[call |-> 1, session |-> HookUser, kind |-> "getSession",
                     userId |-> Null]})
  /\ OneOrderStore

\* the session lookup, the auth events of sign-in and sign-out, profile
\* fetches and signOut, completing in any order
NextAuth ==
  \/ \E a \in authOps, id \in Accounts \cup {Null} : GetSessionReturn(a, id)
  \/ \E id \in Accounts \cup {Null} : AuthStateChange(HookUser, id)
  \/ refreshProfile(HookUser)
  \/ \E a \in authOps : ProfileFetchReturn(a)
  \/ handleSignOut(HookUser)
  \/ \E a \in authOps : SignOutReturn(a)

SpecAuth == InitAuth /\ [][NextAuth]_vars

\* ===================================================== properties
\* sellers of the items of a cart list
SellersIn(list) == {list[i].product.seller_id : i \in 1..Len(list)}

\* the write calls among the store calls a createOrder call has issued
WritesIssued(b) == {op \in Range(co[b].issued) : op # "rpc"}

\* C1: a createOrder call that resolves (no insert failed) on a cart of N
\* distinct sellers has created and returned exactly N orders, one per
\* seller, and every order item of an order is for a product of the order's
\* seller; every cart item is in the order of its seller.
C1_OneOrderPerSeller ==
  \A b \in Callers :
    co[b].pc = "done" =>
      LET list == co[b].cartArg
          created == co[b].created
      IN /\ Len(created) = Cardinality(SellersIn(list))
         /\ \A sid \in SellersIn(list) :
              Cardinality({i \in 1..Len(created) : created[i].seller_id = sid}) = 1
         /\ {o.id : o \in orders} = {created[i].id : i \in 1..Len(created)}
         /\ \A it \in order_items : \E o \in orders :
              o.id = it.order_id /\ SellerOf(it.product_id) = o.seller_id
         /\ \A i \in 1..Len(list) : \E o \in orders, it \in order_items :
              /\ o.seller_id = list[i].product.seller_id
              /\ it.order_id = o.id
              /\ it.product_id = list[i].product_id
              /\ it.quantity = list[i].quantity

\* a resolved call on a cart of two sellers, one group holding two items
C1_Witness ==
  \E b \in Callers :
    /\ co[b].pc = "done"
    /\ Len(co[b].created) = 2
    /\ Len(co[b].cartArg) = 3

\* the state part of C2: after a rejection with at least one group written,
\* the orders of those groups and their items are in the store and no cart
\* delete was issued
C2_Kept ==
  \A b \in Callers :
    (co[b].pc = "failed" /\ Len(co[b].created) >= 1) =>
      /\ \A i \in 1..Len(co[b].created) :
           /\ co[b].created[i] \in orders
           /\ \E it \in order_items : it.order_id = co[b].created[i].id
      /\ "delete cart_items" \notin Range(co[b].issued)

\* the step part of C2: an insert that writes nothing rejects the call, and
\* the step that rejects removes no order, no order item, and changes
\* neither the products nor the cart
C2_RejectStep ==
  \A b \in Callers :
    /\ (co[b].pc = "insertOrder" /\ co'[b] # co[b] /\ orders' = orders)
          => co'[b].pc = "failed"
    /\ (co[b].pc = "insertItems" /\ co'[b] # co[b] /\ order_items' = order_items)
          => co'[b].pc = "failed"
    /\ (co[b].pc # "failed" /\ co'[b].pc = "failed") =>
         /\ orders \subseteq orders'
         /\ order_items \subseteq order_items'
         /\ products' = products
         /\ cart_items' = cart_items

\* C2: when an insert of createOrder fails after at least one seller group
\* was written, the call rejects, the orders, order items and stock changes
\* already written stay, and no cart row of the buyer is deleted.
C2_NoRollbackNoClear == []C2_Kept /\ [][C2_RejectStep]_vars

\* a rejected call whose first group was written in full
C2_Witness ==
  \E b \in Callers :
    /\ co[b].pc = "failed"
    /\ Len(co[b].created) = 1
    /\ \E r \in cart_items : r.buyer_id = b

\* the scenario of C3: b1 checks out pA (seller s1) then pB (seller s2), the
\* s1 group is written and the insert of the s2 order fails
C3_Scenario ==
  /\ co["b1"].pc = "failed"
  /\ Len(co["b1"].cartArg) = 2
  /\ co["b1"].cartArg[1].product_id = "pA"
  /\ co["b1"].cartArg[2].product_id = "pB"
  /\ co["b1"].issued = <<"rpc", "insert orders", "insert order_items",
                         "update products", "rpc", "insert orders">>

CartHas(b, p) == \E r \in cart_items : r.buyer_id = b /\ r.product_id = p

\* C3 as stated: one order (s1's) exists, pB's cart row is there, pA's cart
\* row is gone
C3_AsStated ==
  C3_Scenario =>
    /\ Cardinality(orders) = 1
    /\ \A o \in orders : o.seller_id = "s1"
    /\ CartHas("b1", "pB")
    /\ ~CartHas("b1", "pA")

\* C3 amended: in the scenario exactly one order (s1's) exists, the call is
\* rejected, and the cart still holds both pB's and pA's rows
C3_CartKept ==
  C3_Scenario =>
    /\ Cardinality(orders) = 1
    /\ \A o \in orders : o.seller_id = "s1" /\ o.buyer_id = "b1"
    /\ CartHas("b1", "pB")
    /\ CartHas("b1", "pA")

C3_Witness == C3_Scenario

\* C4: whenever createOrder has resolved, the buyer has no cart row left
\* (no other cart operation runs)
C4_CartEmptyOnSuccess ==
  \A b \in Callers :
    co[b].pc = "done" => ~\E r \in cart_items : r.buyer_id = b

\* C6: once createOrder has returned, every order row has order items
C6_OrdersHaveItems ==
  (\A b \in Callers : co[b].pc \in {"idle", "done", "failed"}) =>
    \A o \in orders : \E it \in order_items : it.order_id = o.id

\* C8: a createOrder call with an empty cart or an empty shipping address
\* issues no store write and does not resolve
C8_ValidatedFirst ==
  \A b \in Callers :
    (co[b].calls > 0 /\ (co[b].cartArg = <<>> \/ co[b].shippingAddress = "")) =>
      /\ WritesIssued(b) = {}
      /\ co[b].pc # "done"

\* C5: no two orders in the store carry the same order_number, whichever
\* generator (the procedure or the timestamp fallback) produced the numbers
C5_UniqueOrderNumbers ==
  \A o1 \in orders, o2 \in orders :
    o1.id # o2.id => o1.order_number # o2.order_number

\* orders numbered by both generators exist and a call is about to insert an
\* order under a number that is already taken
C5_Witness ==
  /\ \E o1 \in orders, o2 \in orders :
       Len(o1.order_number) = 3 /\ Len(o2.order_number) = 2
  /\ \E b \in Callers, o \in orders :
       co[b].pc = "insertOrder" /\ co[b].orderNumber = o.order_number

\* C7: each (buyer, checkout, seller) has at most one order, a checkout
\* being the calls up to and including the first that resolves
C7_NoDuplicateOnRetry ==
  \A l1 \in ledger, l2 \in ledger :
    (l1.buyer_id = l2.buyer_id /\ l1.checkout = l2.checkout
       /\ l1.seller_id = l2.seller_id) => l1.order_id = l2.order_id

\* the status changes of the lifecycle
Lifecycle ==
  {<<"pending", "confirmed">>, <<"confirmed", "shipped">>, <<"shipped", "delivered">>,
   <<"pending", "cancelled">>, <<"confirmed", "cancelled">>}

\* C9: an order starts as pending and every change of its status is a
\* change of the lifecycle
C9_LifecycleOnly ==
  [][\A n \in orders' :
       /\ (\A o \in orders : o.id # n.id) => n.status = "pending"
       /\ \A o \in orders :
            (o.id = n.id /\ o.status # n.status) => <<o.status, n.status>> \in Lifecycle]_vars

\* C10: an order row changes in the store only by an update call whose
\* caller is the order's seller; the update of any other principal leaves
\* the row as it is
C10_OnlySellerUpdates ==
  [][\A o \in orders :
       o \notin orders' =>
         \E c \in sc \ sc' :
           c.pc = "update" /\ c.orderId = o.id /\ c.caller = o.seller_id]_vars

\* the update of a principal who is not the seller has returned without an
\* error and the order still has its status
C10_Witness ==
  \E c \in sc, o \in orders :
    /\ c.pc = "fetch"
    /\ c.orderId = o.id
    /\ c.caller # o.seller_id
    /\ c.status # o.status
    /\ o.status = "pending"

\* C11: every order_items row satisfies total_price = unit_price * quantity
C11_ItemTotal ==
  \A it \in order_items : it.total_price = it.unit_price * it.quantity

\* an order item of quantity two or more has been written
C11_Witness ==
  \E it \in order_items : it.quantity >= 2 /\ it.total_price > it.unit_price

\* sum of total_price over a set of order_items rows
RECURSIVE SumTotalPrice(_)
SumTotalPrice(rows) ==
  IF rows = {} THEN 0
  ELSE LET r == CHOOSE x \in rows : TRUE
       IN r.total_price + SumTotalPrice(rows \ {r})

ItemsOf(o) == {it \in order_items : it.order_id = o.id}

\* C12: an order whose items were written has total_amount equal to the sum
\* of total_price over its order_items rows
C12_OrderTotal ==
  \A o \in orders :
    ItemsOf(o) # {} => o.total_amount = SumTotalPrice(ItemsOf(o))

\* an order of two items, one of quantity two or more, has its items written
C12_Witness ==
  \E o \in orders :
    /\ Cardinality(ItemsOf(o)) = 2
    /\ \E it \in ItemsOf(o) : it.quantity >= 2

\* the order total of a list of cart items at the prices now in the store
RECURSIVE StoreTotal(_)
StoreTotal(items) ==
  IF items = <<>> THEN 0
  ELSE products[Head(items).product_id].price * Head(items).quantity
       + StoreTotal(Tail(items))

\* C13: an order and its items are written with the product price that is in
\* the store when the checkout writes them, whatever price the loaded cart
\* item holds
C13_StorePriceAtCheckout ==
  [][/\ \A it \in order_items' \ order_items :
          it.unit_price = products[it.product_id].price
     /\ \A b \in Callers :
          (co[b].pc = "insertOrder" /\ orders' # orders) =>
             \A o \in orders' \ orders :
                o.total_amount = StoreTotal(co[b].groups[co[b].gi].items)]_vars

\* C14: stock_quantity is never negative, and after a checkout that ordered
\* more than the stock the product's stock_quantity is 0
C14_StockFloor ==
  /\ \A p \in Products : products[p].stock_quantity >= 0
  /\ \A b \in Callers :
       co[b].pc = "done" =>
          \A i \in 1..Len(co[b].cartArg) :
             LET item == co[b].cartArg[i]
             IN item.quantity > InitialProducts[item.product_id].stock_quantity =>
                  products[item.product_id].stock_quantity = 0

\* C15: the stock update of a checkout leaves stock_quantity at max(0, s - q),
\* s being the stock in the store immediately before it and q the ordered
\* quantity
C15_DecrementFromStore ==
  [][\A b \in Callers :
       (co[b].pc = "stock" /\ co'[b] # co[b]) =>
          LET item == co[b].groups[co[b].gi].items[co[b].si]
              p == item.product_id
          IN products'[p].stock_quantity =
               Max(0, products[p].stock_quantity - item.quantity)]_vars

\* C16: a store write of createOrder that failed makes the call reject: an
\* insert that wrote no row, a stock update the caller may make that left
\* another value than the one sent, a cart delete that left rows of the buyer
C16_WriteErrorsReject ==
  [][\A b \in Callers :
       /\ (co[b].pc = "insertOrder" /\ co'[b] # co[b] /\ orders' = orders)
             => co'[b].pc = "failed"
       /\ (co[b].pc = "insertItems" /\ co'[b] # co[b] /\ order_items' = order_items)
             => co'[b].pc = "failed"
       /\ (co[b].pc = "stock" /\ co'[b] # co[b]
           /\ LET item == co[b].groups[co[b].gi].items[co[b].si]
              IN /\ ProductUpdateVisible(b, item.product_id)
                 /\ products'[item.product_id].stock_quantity # NewStock(item))
             => co'[b].pc = "failed"
       /\ (co[b].pc = "clear" /\ co'[b] # co[b]
           /\ \E r \in cart_items' : r.buyer_id = b)
             => co'[b].pc = "failed"]_vars

\* at most one cart row per (buyer, product)
C17_Unique ==
  \A r1 \in cart_items, r2 \in cart_items :
    (r1.buyer_id = r2.buyer_id /\ r1.product_id = r2.product_id) => r1 = r2

\* the write of an addToCart(p, q) call that succeeds leaves the buyer exactly
\* one row for p, of quantity k + q, k being the quantity held before (0: no row)
C17_AddStep ==
  \A c \in cc :
    (/\ c.op = "addToCart" /\ c.pc \in {"update", "insert"}
     /\ [c EXCEPT !.pc = "fetch"] \in cc')
    => \E r \in cart_items' :
         /\ {x \in cart_items' : x.buyer_id = c.caller /\ x.product_id = c.productId} = {r}
         /\ r.quantity = StoreQty(c.caller, c.productId) + c.quantity

\* C17: addToCart(p, q) on a cart that holds p with quantity k leaves one row
\* of quantity k + q, otherwise it inserts one row of quantity q; there is at
\* most one row per (buyer, product) in every reachable state
C17_AddOneRow == []C17_Unique /\ [][C17_AddStep]_vars

\* an addToCart has raised the quantity of an existing row, while another
\* buyer holds a row for the same product
C17_Witness ==
  \E c \in cc :
    /\ c.op = "addToCart" /\ c.pc = "fetch" /\ c.existingItem # <<>>
    /\ \E r \in CartRowsOf(c.caller, c.productId) :
         r.quantity = c.existingItem[1].quantity + c.quantity
    /\ \E r \in cart_items : r.buyer_id # c.caller /\ r.product_id = c.productId

\* no cart row has a quantity <= 0, and an updateQuantity(item, q) call with
\* q <= 0 runs the delete of removeFromCart, after which the item is absent
C18_Kept ==
  /\ \A r \in cart_items : r.quantity > 0
  /\ \A c \in cc :
       (c.op = "updateQuantity" /\ c.quantity <= 0) =>
          /\ c.pc \in {"delete", "fetch"}
          /\ c.pc = "fetch" => ~\E r \in cart_items : r.id = c.cartItemId

\* the effect of one step of a call c that removes an item, on the store and
\* on the hook's cart list
C18_RemoveEffect(c) ==
  /\ c.pc = "delete" =>
       /\ cartItems' = cartItems
       /\ \/ /\ cart_items' = {r \in cart_items : r.id # c.cartItemId}
             /\ [c EXCEPT !.pc = "fetch"] \in cc'
          \/ /\ cart_items' = cart_items
             /\ cc' = cc \ {c}
  /\ c.pc = "fetch" =>
       /\ cart_items' = cart_items
       /\ \/ cartItems' = cartItems
          \/ \E list \in Listings(CartQuery(c.caller)) :
               /\ cartItems' = [cartItems EXCEPT ![c.caller] = list]
               /\ \A i \in 1..Len(list) : list[i].id # c.cartItemId

C18_Step ==
  \A c \in cc :
    (/\ c \notin cc'
     /\ \/ c.op = "removeFromCart"
        \/ c.op = "updateQuantity" /\ c.quantity <= 0)
    => C18_RemoveEffect(c)

\* C18: updateQuantity(item, q) with q <= 0 has the effect of
\* removeFromCart(item) on the store and on the hook's cart list, the item is
\* absent afterwards, and no row with quantity <= 0 is ever written
C18_ZeroRemoves == []C18_Kept /\ [][C18_Step]_vars

\* updateQuantity with a quantity <= 0 has deleted the row of an item of the
\* loaded cart list
C18_Witness ==
  \E c \in cc :
    /\ c.op = "updateQuantity" /\ c.quantity <= 0 /\ c.pc = "fetch"
    /\ \E it \in Range(cartItems[c.caller]) : it.id = c.cartItemId
    /\ ~\E r \in cart_items : r.id = c.cartItemId

\* the update of call c is applied to an order whose status is already the
\* status the call sets
RepeatUpdate(c) ==
  /\ c.pc = "update"
  /\ [c EXCEPT !.pc = "fetch"] \in sc'
  /\ \E o \in orders : o.id = c.orderId /\ o.status = c.status

\* no table but orders changes
OtherTablesKept ==
  /\ order_items' = order_items
  /\ payment_receipts' = payment_receipts
  /\ products' = products
  /\ cart_items' = cart_items

\* C19 as stated: updateOrderStatus(o, s) on an order whose status is
\* already s leaves the store unchanged, no row or field is created or modified
C19_AsStated ==
  [][\A c \in sc : RepeatUpdate(c) => (orders' = orders /\ OtherTablesKept)]_vars

\* C19: updateOrderStatus(o, s) on an order whose status is already s leaves
\* the status s and the store unchanged except for that order's updated_at
C19_Idempotent ==
  [][\A c \in sc :
       RepeatUpdate(c) =>
          /\ OtherTablesKept
          /\ {n.id : n \in orders'} = OrderIds
          /\ \A n \in orders' : \E o \in orders :
               /\ n = [o EXCEPT !.updated_at = n.updated_at]
               /\ o.id # c.orderId => n = o]_vars

\* a status update to the status the order already has was applied, after
\* the clock advanced
C19_Witness ==
  \E c \in sc, o \in orders :
    /\ c.pc = "fetch" /\ o.id = c.orderId /\ o.status = c.status
    /\ o.id = 1 /\ o.status = "pending" /\ o.updated_at >= 1

\* orders' differs from orders in the fields of `except` at most, no order is
\* created or deleted, and a change is the update of a status call, on the
\* order it addresses
OnlyStatusCallChanges ==
  orders' # orders =>
    \E c \in sc :
      /\ c.pc = "update" /\ c \notin sc'
      /\ \A o \in orders : o.id # c.orderId => o \in orders'

\* C20 as stated: after the checkout no operation changes an order or its
\* items, except that updateOrderStatus changes the status field, alone, of
\* the order it addresses
C20_AsStated ==
  [][/\ order_items' = order_items
     /\ {n.id : n \in orders'} = OrderIds
     /\ \A n \in orders' : \E o \in orders : n = [o EXCEPT !.status = n.status]
     /\ OnlyStatusCallChanges]_vars

\* C20: after the checkout no operation changes an order or its items, except
\* that updateOrderStatus changes the status, and with it updated_at, of the
\* order it addresses; a receipt upload and a price change leave them as
\* they are
C20_OnlyStatusChanges ==
  [][/\ order_items' = order_items
     /\ {n.id : n \in orders'} = OrderIds
     /\ \A n \in orders' : \E o \in orders :
          n = [o EXCEPT !.status = n.status, !.updated_at = n.updated_at]
     /\ OnlyStatusCallChanges]_vars

\* the seller confirmed order 1, the buyer uploaded a receipt and the price of
\* pA was changed, and order 1 and its item hold their amounts
C20_Witness ==
  /\ \E o \in orders :
       /\ o.id = 1 /\ o.status = "confirmed" /\ o.updated_at >= 1
       /\ o.total_amount = 5 * MaxQty
  /\ payment_receipts # {}
  /\ products["pA"].price = 7
  /\ \E it \in order_items : it.order_id = 1 /\ it.unit_price = 5

\* the insert of an upload call that goes on adds one new row, pending, for
\* the call's order and by its caller, and keeps the rows there were; the
\* insert of a call that is rejected, and every other step, keeps the table
C21_Step ==
  /\ \A c \in rc :
       (c.pc = "insert" /\ c \notin rc') =>
          IF [c EXCEPT !.pc = "fetch"] \in rc'
            THEN \E r \in payment_receipts' \ payment_receipts :
                   /\ payment_receipts' = payment_receipts \cup {r}
                   /\ \A x \in payment_receipts : x.id # r.id
                   /\ r.order_id = c.orderId /\ r.receipt_url = c.receiptUrl
                   /\ r.status = "pending" /\ r.uploaded_by = c.caller
            ELSE payment_receipts' = payment_receipts
  /\ (\A c \in rc : ~(c.pc = "insert" /\ c \notin rc')) =>
        payment_receipts' = payment_receipts

\* C21: a successful uploadPaymentReceipt(o, url) adds exactly one
\* payment_receipts row, for o, pending, uploaded_by the caller, and changes no
\* existing receipt; a failed call adds none
C21_OneReceipt == [][C21_Step]_vars

\* a second receipt was uploaded for the order next to the first one
C21_Witness ==
  /\ Cardinality(payment_receipts) = 2
  /\ \A r \in payment_receipts :
       r.order_id = FrameOrder /\ r.status = "pending" /\ r.uploaded_by = "b1"

\* the return of the rpc, with or without a value, leaves the call with an
\* order number, generated or the timestamp fallback, at the order insert
C22_RpcStep ==
  \A b \in Callers :
    (co[b].pc = "rpc" /\ co'[b] # co[b]) =>
       /\ co'[b].pc = "insertOrder"
       /\ co'[b].orderNumber \in
            {FallbackOrderNumber(now)}
              \cup {generate_order_number(now, r) : r \in 0..(RandomRange - 1)}

\* C22: when generate_order_number fails or returns no value createOrder goes
\* on to the order insert with the timestamp fallback, and every createOrder
\* call whose store calls all return ends, resolved or rejected
C22_NeverBlocks ==
  /\ [][C22_RpcStep]_vars
  /\ \A b \in Callers :
       (co[b].pc \in {"rpc", "insertOrder", "insertItems", "stock", "clear", "fetch"})
          ~> (co[b].pc \in {"done", "failed"})

\* a call resolved after it inserted an order under a fallback number
C22_Witness ==
  \E b \in Callers, o \in orders :
    /\ co[b].pc = "done" /\ o.buyer_id = b
    /\ \E t \in 0..MaxNow : o.order_number = FallbackOrderNumber(t)

\* C23: once updateOrderStatus(o, s) of the hook has resolved, and while the
\* session stays signed in, the hook's orders list shows order o with status
\* s (o passing the hook's role filter), whichever fetchOrders calls of the
\* same hook were in flight at the update and complete later.
C23_ListShowsStatus ==
  \A c \in sc :
    (/\ c.pc = "resolved"
     /\ auth[HookUser] = c.closure
     /\ oh.deps = auth[HookUser]
     /\ \E o \in OrdersQuery(HookUser, RoleOf(HookUser)) : o.id = c.orderId)
    => \E x \in oh.orders : x.id = c.orderId /\ x.status = c.status

\* the fetchOrders call whose select returns rows in this step
SelectReturns(f) == f \in fo /\ f.pc = "served" /\ ~f.failed /\ f \notin fo'

\* the fetchOrders call whose side read of stripe_user_orders returns in
\* this step
StripeReturns(f) == f \in fo /\ f.pc = "stripe" /\ f \notin fo'

C24_Step ==
  \A f \in fo :
    /\ SelectReturns(f) =>
         /\ oh'.orders = f.data
         /\ oh'.error = oh.error
         /\ oh'.stripeOrders = oh.stripeOrders
    /\ StripeReturns(f) =>
         /\ oh'.orders = oh.orders
         /\ oh'.error = oh.error
         /\ ~oh'.loading
         /\ \/ oh'.stripeOrders = oh.stripeOrders
            \/ oh'.stripeOrders = {r \in stripe_user_orders : r.customer = f.uid}

\* C24: a fetchOrders call whose marketplace select succeeds sets orders to
\* the rows read and leaves error as it is (null since the call began), and
\* the return of its side read of stripe_user_orders, failed or not, changes
\* neither orders nor error: after a failed side read the previous
\* stripeOrders is kept and the call ends as a success with loading false.
C24_SideReadOptional == [][C24_Step]_vars

\* the first fetch of a signed-in session is over with the orders loaded, no
\* error, and stripeOrders still as before the fetch: its side read failed
C24_Witness ==
  /\ fo = {}
  /\ oh.orders # {}
  /\ oh.error = Null
  /\ oh.stripeOrders = {}
  /\ ~oh.loading
  /\ auth[HookUser] = SignedIn(HookUser)

\* no call of the hook in flight or due
OrdersIdle == fo = {} /\ oh.deps = auth[HookUser]
CartIdle == fc = {} /\ ch.deps = auth[HookUser].user
StripeIdle == ss = {}

C25_Idle ==
  /\ OrdersIdle => ~oh.loading
  /\ CartIdle => ~ch.loading
  /\ StripeIdle => ~sh.loading

C25_Step ==
  /\ \A f \in fo : (\A g \in fo' : g.call # f.call) =>
       /\ ~oh'.loading
       /\ f.failed => oh'.error # Null
  /\ \A f \in fc : (\A g \in fc' : g.call # f.call) =>
       /\ ~ch'.loading
       /\ f.failed => ch'.error # Null
  /\ \A c \in ss : (\A g \in ss' : g.call # c.call) =>
       /\ ~sh'.loading
       /\ c.pc # "url" => sh'.error # Null

\* C25: every fetchOrders, fetchCartItems and createCheckoutSession call
\* that completes, by success, failure or early return, ends with the hook's
\* loading false, so loading is false whenever no call of the hook is in
\* flight or due; a failed fetch also sets a non-null error message.
C25_LoadingEnds == []C25_Idle /\ [][C25_Step]_vars

\* all three hooks are idle after a failed call each
C25_Witness ==
  /\ OrdersIdle /\ oh.error # Null
  /\ CartIdle /\ ch.error # Null
  /\ StripeIdle /\ sh.error # Null
  /\ auth[HookUser].user # Null

\* the tables of the store
store == <<products, cart_items, orders, order_items, payment_receipts>>

C26_Step ==
  /\ \A u \in Callers :
       auth[u].user = Null =>
         /\ co[u].pc \in {"idle", "done", "failed"} => co'[u] = co[u]
         /\ \A c \in cc' \ cc : c.caller = u => c.pc # "select"
         /\ \A c \in rc' \ rc : c.caller = u => c.pc # "insert"
  /\ rejected' # rejected =>
       /\ \A r \in rejected' \ rejected :
            /\ auth[r.session].user = Null
            /\ r.message = "User not authenticated"
       /\ UNCHANGED <<store, co, cc, rc, sc, cartItems, ordersView>>

\* C26: createOrder, addToCart and uploadPaymentReceipt called in a session
\* whose user is null throw 'User not authenticated' and start no call: no
\* store call is issued, the store and the lists are unchanged; and a call
\* throws that message only when the user is null.
C26_NoUserNoCall == [][C26_Step]_vars

\* all three calls have been rejected in the signed-out session and nothing
\* was written
C26_Witness ==
  /\ auth[GuestSession].user = Null
  /\ {r.op : r \in rejected} = {"createOrder", "addToCart", "uploadPaymentReceipt"}
  /\ OneOrderStore

\* the cart rows the final delete of b's createOrder call removes in this step
DeletedByCheckout(b) ==
  IF co[b].pc = "clear" /\ co'[b].pc = "fetch" THEN cart_items \ cart_items' ELSE {}

\* C27: every cart_items row that a createOrder call deletes is covered by
\* an order item, for the row's product, of one of the orders the call has
\* created, also when the buyer has added a product after the cart list
\* was loaded and before the final cart delete.
C27_DeletedRowsOrdered ==
  [][\A b \in Callers : \A r \in DeletedByCheckout(b) :
       \E o \in Range(co[b].created) : \E it \in order_items :
         it.order_id = o.id /\ it.product_id = r.product_id]_vars

\* C28: when two addToCart calls of one buyer for one product, adding q1 and
\* q2, have both written successfully (each then resolves after its
\* fetchCartItems), the buyer has exactly one row for the product and its
\* quantity is the prior quantity + q1 + q2, in every interleaving.
C28_BothAdded ==
  \A c1 \in cc, c2 \in cc :
    (/\ c1 # c2
     /\ c1.op = "addToCart" /\ c2.op = "addToCart"
     /\ c1.pc = "fetch" /\ c2.pc = "fetch"
     /\ c1.caller = c2.caller /\ c1.productId = c2.productId)
    => \E r \in cart_items :
         /\ CartRowsOf(c1.caller, c1.productId) = {r}
         /\ r.quantity = RacePrior(c1.productId) + c1.quantity + c2.quantity

\* C29: whenever user or profile of the session is null, the hook's effect
\* has run for that context value and no fetchOrders call is in flight,
\* orders and stripeOrders are empty: a fetchOrders call started while signed
\* in and completing after the sign-out does not put the orders back.
C29_SignedOutEmpty ==
  (/\ auth[HookUser].user = Null \/ auth[HookUser].profile = Null
   /\ oh.deps = auth[HookUser]
   /\ fo = {})
  => oh.orders = {} /\ oh.stripeOrders = {}

\* C30: in every state with no session lookup, profile fetch or signOut of
\* the provider in flight, profile is null when user is null, and otherwise
\* is what getUserProfile returns for the current user's id (the row of that
\* id, or null), for every order of completion.
C30_ProfileOfUser ==
  authOps = {} =>
    LET a == auth[HookUser]
    IN IF a.user = Null
         THEN a.profile = Null
         ELSE a.profile \in {getUserProfile(a.user, ok) : ok \in BOOLEAN}


====
